---- MODULE Spec2Model ----
(***************************************************************************)
(* Calendar-Notifier: the morning-brief pipeline.                          *)
(*   calendar retrieval and filtering  (google_calendar.py)                *)
(*   CRM lookups with cache and retry  (affinity_client.py, retry.py)      *)
(*   attendee enrichment and brief generation (brief_service.py)           *)
(*   summarization with its fallback formatter (summarization_service.py)  *)
(***************************************************************************)
EXTENDS Integers, Sequences, FiniteSets, TLC

VARIABLES
    settings,        \* app.core.config.settings (the fields the pipeline reads)
    source,          \* Calendar source: calendar id -> items the events().list call returns
    cache,           \* Redis: key -> None or Some([value, ttl])
    cal_pc,          \* get_daily_events: "idle", "loop", "api", "returned", "raised"
    cal_idx,         \* index into calendar_ids of the calendar being queried
    attempt,         \* the retry counter of the event-list loop
    meeting_events,  \* the accumulator of get_daily_events
    cal_result,      \* the list get_daily_events returned
    requests,        \* event-list requests executed for the calendar at cal_idx
    failed_cal,      \* index of the calendar whose HttpError ended the call (0: none)
    list_log,        \* for the calendar at cal_idx: what the cache read gave and the outcome
                     \* of each event-list request executed so far
    event_cal,       \* for each event of meeting_events, the calendar it was read from
    lk,              \* the CRM lookup in progress or last finished (one call of a lookup method)
    person_fields_cache,  \* AffinityClient._person_fields_cache
    linkedin_field_ids,   \* AffinityClient._linkedin_field_ids
    net_by_key,      \* per lookup key: requests the CRM answered with data since the key's
                     \* cache entry last expired (not counting one the cache refused to store)
    lookups,         \* direct lookup calls started so far
    gen_pc,          \* generate_daily_brief: "idle", "calendar", "enrich", "history",
                     \* "summarize", "done", "raised"
    target_date,     \* the target_date argument
    ev_idx,          \* _enrich_events: index of the event of the outer loop
    att_idx,         \* _enrich_events: index of the attendee of the inner loop
    enriched_attendees,  \* _enrich_events: the list built for the current event
    enriched_events,     \* _enrich_events: the list built so far, then mutated by history
    enr,             \* the enrich_attendee_info call in progress or just returned
    enr_log,         \* per finished enrich_attendee_info call: what went wrong in it
    llm,             \* outcome of the language-model request: "none", "ok", "error"
    brief,           \* the BriefResponse returned, or None
    gen_error,       \* the exception that left generate_daily_brief, or None
    invoked,         \* collaborators called by this generation
    history,         \* _enrich_with_history: None, or what its runs fetched and left
    query_range,     \* get_daily_events: None, or a call's target day, clock and query range
    fallback_call,   \* _generate_fallback_brief: the events passed and the text returned
    redis,           \* RedisCache: per key, None or the payload stored and its expiry
    cache_call,      \* RedisCache: the last operation, its arguments and what it returned
    retry_call,      \* a call through async_retry: its parameters, position, attempts and waits
    db_settings,     \* table user_settings: the committed rows, in id order
    db_briefs,       \* table briefs: the committed rows, in id order
    next_brief_id,   \* the id the next inserted Brief row gets
    settings_call,   \* the last get_user_settings / update_user_settings call
    task,            \* the Celery task in progress or finished last
    outbox,          \* the email the email service accepted last, or None
    clock            \* datetime.now(), in days

envVars == <<settings, source>>
calVars == <<cal_pc, cal_idx, attempt, meeting_events, cal_result, requests, failed_cal, list_log,
             event_cal>>
crmVars == <<lk, person_fields_cache, linkedin_field_ids, net_by_key, lookups>>
briefVars == <<gen_pc, target_date, ev_idx, att_idx, enriched_attendees, enriched_events,
               enr, enr_log, llm, brief, gen_error, invoked, history>>
(* calls of get_daily_events' range computation and of the fallback formatter *)
cacheVars == <<redis, cache_call>>
dbVars == <<db_settings, db_briefs, next_brief_id>>
taskVars == <<task, outbox, clock>>
svcVars == <<cacheVars, retry_call, dbVars, settings_call, taskVars>>
callVars == <<query_range, fallback_call, svcVars>>
pipelineVars == <<envVars, cache, calVars, crmVars, briefVars, query_range, fallback_call>>

---------------------------------------------------------------------------
(* Optional values: Python's None and a present value. *)
None == <<>>
Some(x) == <<x>>
Val(o) == o[1]

(* str.lower() on the strings of the model. *)
Lower(s) ==
    CASE s = "Ann" -> "ann"
      [] s = "Acme.com" -> "acme.com"
      [] s = "Carol" -> "carol"
      [] s = "Internal" -> "internal"
      [] OTHER -> s

(* An email address local@domain; domain "" stands for a string without '@'. *)
Email(l, d) == [local |-> l, domain |-> d]
LowerEmail(e) == [local |-> Lower(e.local), domain |-> Lower(e.domain)]

(* Bounds *)
MaxEvents == 2      \* items one calendar returns

(* Program constants *)
MaxListAttempts == 3     \* google_calendar.py:121
GcalTtl == 600           \* google_calendar.py:115

---------------------------------------------------------------------------
(* The calendar identities and the raw calendar items of the model. *)
CalAnn  == Email("ann", "acme.com")
CalBen  == Email("ben", "other.com")
Primary == Email("primary", "")

RawAttendee(e, dn) == [email |-> e, displayName |-> dn, self |-> FALSE]

RawEvent(i, st, en, kind, atts, rec, link) ==
    [id |-> i, start |-> [kind |-> kind, t |-> st], end |-> [kind |-> kind, t |-> en],
     summary |-> Some(<<"summary", i>>), attendees |-> atts, recurring |-> rec,
     hangoutLink |-> link, conferenceUri |-> None, textUrl |-> None,
     htmlLink |-> Some(<<"html", i>>), description |-> None, location |-> None]

EvNoAttendees == RawEvent("e1", 1, 2, "dateTime", <<>>, FALSE, None)
EvOwnerOnly   == RawEvent("e2", 2, 3, "dateTime",
                          <<RawAttendee(Some(Email("Ann", "Acme.com")), None)>>, FALSE, None)
EvMixed       == RawEvent("e3", 3, 5, "dateTime",
                          <<RawAttendee(Some(Email("bob", "acme.com")), Some(<<"Bob", "Smith">>)),
                            RawAttendee(Some(Email("carol", "other.com")), None)>>,
                          FALSE, Some("meet"))
EvRecurring   == RawEvent("e4", 4, 5, "dateTime",
                          <<RawAttendee(Some(Email("carol", "other.com")), None)>>, TRUE, None)
EvSameDomain  == RawEvent("e5", 5, 6, "dateTime",
                          <<RawAttendee(Some(Email("Ann", "acme.com")), None),
                            RawAttendee(Some(Email("bob", "acme.com")), None)>>, FALSE, None)
EvPartner     == RawEvent("e6", 6, 7, "date",
                          <<RawAttendee(Some(Email("dave", "partner.com")), None),
                            RawAttendee(None, Some(<<"Room">>))>>, FALSE, None)

(* a display name of blanks only; names are sequences of tokens, " " a run of blanks *)
EvBlankName   == RawEvent("e7", 7, 8, "dateTime",
                          <<RawAttendee(Some(Email("erin", "ext.com")), Some(<<" ">>))>>,
                          FALSE, None)

EventPool == <<EvNoAttendees, EvOwnerOnly, EvMixed, EvRecurring, EvSameDomain, EvPartner,
               EvBlankName>>

(* The item lists a calendar may hold, each item named by its place in the   *)
(* pool: the pool's events in start-time order (the request asks             *)
(* orderBy=startTime), at most MaxEvents of them.                            *)
RECURSIVE PickEvents(_, _)
PickEvents(idxs, i) ==
    IF i > Len(EventPool) THEN <<>>
    ELSE (IF i \in idxs THEN <<i>> ELSE <<>>) \o PickEvents(idxs, i + 1)

ItemLists ==
    { PickEvents(s, 1) : s \in { x \in SUBSET (1..Len(EventPool)) : Cardinality(x) <= MaxEvents } }

---------------------------------------------------------------------------
(* schemas/brief.py *)
AttendeeInfo(e, n) ==
    [email |-> e, name |-> n, company |-> None, title |-> None, linkedin_url |-> None,
     recent_emails |-> None, last_note_summary |-> None, last_note_date |-> None,
     materials |-> None, company_domain |-> None, website_url |-> None,
     news_articles |-> None, last_meeting_date |-> None, meetings_past_n_days |-> None]

(* settings.google_calendar_ids split on ',', or ['primary'] when unset *)
calendar_ids ==
    IF settings.google_calendar_ids # <<>> THEN settings.google_calendar_ids ELSE <<Primary>>

(* dateutil isoparse of start/end: a dateTime string is timezone-aware, a date is not *)
ParseTimeOfDay(x) == [t |-> x.t % 2, aware |-> (x.kind = "dateTime")]

ParseTimeBackwards(x) == [t |-> 0 - x.t, aware |-> (x.kind = "dateTime")]

ParseTime(x) == [t |-> x.t, aware |-> (x.kind = "dateTime")]

(* attendee_infos: one AttendeeInfo per raw attendee that has an email;  *)
(* the name is displayName, or the local part of the email when absent   *)
AttendeeInfos(event) ==
    LET withEmail == SelectSeq(event.attendees, LAMBDA a : a.email # None)
    IN  [i \in 1..Len(withEmail) |->
            AttendeeInfo(Val(withEmail[i].email),
                         IF withEmail[i].displayName # None
                         THEN Val(withEmail[i].displayName)
                         ELSE <<Val(withEmail[i].email).local>>)]

NonOwnerCaseSensitive(calendar_id, attendee_infos) ==
    SelectSeq(attendee_infos, LAMBDA a : a.email # calendar_id)

(* Smart filter 1 *)
NonOwnerAttendees(calendar_id, attendee_infos) ==
    SelectSeq(attendee_infos, LAMBDA a : LowerEmail(a.email) # LowerEmail(calendar_id))

extract_domain(email_value) == Lower(email_value.domain)

owner_domain_unset(calendar_id) == ""

owner_domain(calendar_id) ==
    IF calendar_id.domain # "" THEN extract_domain(LowerEmail(calendar_id)) ELSE ""

ExternalAttendeesNoFallback(calendar_id, non_owner_attendees) ==
    LET external_attendees ==
            IF owner_domain(calendar_id) # "" /\ settings.filter_external_only
            THEN SelectSeq(non_owner_attendees,
                           LAMBDA a : extract_domain(a.email) # owner_domain(calendar_id))
            ELSE non_owner_attendees
    IN  IF settings.internal_domains # {}
        THEN SelectSeq(external_attendees,
                       LAMBDA a : extract_domain(a.email) \notin settings.internal_domains)
        ELSE external_attendees

(* Smart filter 2, with the internal-domains preference *)
ExternalAttendees(calendar_id, non_owner_attendees) ==
    LET od == owner_domain(calendar_id)
        external_attendees ==
            IF od # "" /\ settings.filter_external_only
            THEN SelectSeq(non_owner_attendees, LAMBDA a : extract_domain(a.email) # od)
            ELSE non_owner_attendees
        externals ==
            SelectSeq(external_attendees,
                      LAMBDA a : extract_domain(a.email) \notin settings.internal_domains)
    IN  IF settings.internal_domains # {} /\ externals # <<>>
        THEN externals
        ELSE external_attendees

_extract_meeting_url(event) ==
    IF event.hangoutLink # None THEN event.hangoutLink
    ELSE IF event.conferenceUri # None THEN event.conferenceUri
    ELSE event.textUrl

FilterEventIgnoringRecurrence(calendar_id, event) ==
    LET external_attendees ==
            ExternalAttendees(calendar_id, NonOwnerAttendees(calendar_id, AttendeeInfos(event)))
    IN  IF \/ settings.filter_require_non_owner_attendee
              /\ NonOwnerAttendees(calendar_id, AttendeeInfos(event)) = <<>>
           \/ settings.filter_external_only /\ external_attendees = <<>>
        THEN <<>>
        ELSE << [event_id |-> event.id,
                 title |-> IF event.summary # None THEN Val(event.summary)
                           ELSE <<"Untitled Meeting">>,
                 start_time |-> ParseTime(event.start),
                 end_time |-> ParseTime(event.end),
                 attendees |-> external_attendees,
                 description |-> event.description,
                 location |-> event.location,
                 meeting_url |-> _extract_meeting_url(event),
                 calendar_url |-> event.htmlLink,
                 duration_minutes |-> Some(ParseTime(event.end).t - ParseTime(event.start).t)] >>

(* The body of the per-event loop: <<>> when the event is skipped (continue), *)
(* else the one MeetingEvent appended.                                        *)
FilterEvent(calendar_id, event) ==
    LET attendee_infos      == AttendeeInfos(event)
        non_owner_attendees == NonOwnerAttendees(calendar_id, attendee_infos)
        external_attendees  == ExternalAttendees(calendar_id, non_owner_attendees)
        start_time          == ParseTime(event.start)
        end_time            == ParseTime(event.end)
    IN  IF settings.filter_exclude_recurring /\ event.recurring THEN <<>>
        ELSE IF settings.filter_require_non_owner_attendee /\ Len(non_owner_attendees) = 0
        THEN <<>>
        ELSE IF settings.filter_external_only /\ Len(external_attendees) = 0 THEN <<>>
        ELSE << [event_id |-> event.id,
                 title |-> IF event.summary # None THEN Val(event.summary)
                           ELSE <<"Untitled Meeting">>,
                 start_time |-> start_time,
                 end_time |-> end_time,
                 attendees |-> external_attendees,
                 description |-> event.description,
                 location |-> event.location,
                 meeting_url |-> _extract_meeting_url(event),
                 calendar_url |-> event.htmlLink,
                 duration_minutes |-> Some(end_time.t - start_time.t)] >>

RECURSIVE ProcessItems(_, _)
ProcessItems(calendar_id, items) ==
    IF items = <<>> THEN <<>>
    ELSE FilterEvent(calendar_id, EventPool[Head(items)])
         \o ProcessItems(calendar_id, Tail(items))

---------------------------------------------------------------------------
(* get_daily_events: the queried range.  Local wall-clock time is counted in *)
(* hours from the midnight that starts day 0; a day is a number.             *)
MaxDay == 2            \* days the clock and the target date range over

HoursPerDay == 24      \* timedelta(days=1)
UtcOffsetHours == 5    \* settings.timezone America/New_York: UTC is local time + 5 h

(* x.date() of a local time *)
DateOf(hour) == hour \div HoursPerDay

(* x.astimezone(pytz.UTC) *)
astimezone_utc(hour) == hour + UtcOffsetHours

Max2(a, b) == IF a >= b THEN a ELSE b
Min2(a, b) == IF a <= b THEN a ELSE b

TimeRangeUnclipped(target_day, now_local) ==
    IF settings.time_window_hours > 0 /\ target_day = DateOf(now_local)
    THEN [time_min |-> astimezone_utc(now_local),
          time_max |-> astimezone_utc(now_local + settings.time_window_hours)]
    ELSE [time_min |-> astimezone_utc(target_day * HoursPerDay),
          time_max |-> astimezone_utc(target_day * HoursPerDay + HoursPerDay)]

(* time_min and time_max for a target date and a reading of the clock *)
TimeRange(target_day, now_local) ==
    LET start_local == target_day * HoursPerDay
        end_local   == start_local + HoursPerDay
        windowed    == /\ settings.time_window_hours # 0
                       /\ settings.time_window_hours > 0
                       /\ DateOf(start_local) = DateOf(now_local)
        start_win   == Max2(start_local, now_local)
        end_win     == Min2(end_local, start_win + settings.time_window_hours)
    IN  [time_min |-> astimezone_utc(IF windowed THEN start_win ELSE start_local),
         time_max |-> astimezone_utc(IF windowed THEN end_win ELSE end_local)]

(* get_daily_events(target_date) up to the computation of time_min and *)
(* time_max; a target_date of None is the day the clock shows          *)
GetDailyEventsRange ==
    /\ \E target_day \in 0..MaxDay, now_local \in 0..(HoursPerDay * (MaxDay + 1) - 1) :
         query_range' = Some([target_day |-> target_day, now_local |-> now_local,
                              time_min |-> TimeRange(target_day, now_local).time_min,
                              time_max |-> TimeRange(target_day, now_local).time_max])
    /\ UNCHANGED <<envVars, cache, calVars, crmVars, briefVars, fallback_call, svcVars>>

---------------------------------------------------------------------------
(* cache.py: keys and entries *)
GcalKey(calendar_id) == <<"gcal", calendar_id>>

CacheGet(key) == IF cache[key] = None THEN None ELSE Some(Val(cache[key]).value)
CachePut(key, value, ttl) == [cache EXCEPT ![key] = Some([value |-> value, ttl |-> ttl])]

should_retry_any_http_error(err) == TRUE

(* should_retry_http_error: a transient marker in the error text *)
should_retry_http_error(err) == err = "transient"

---------------------------------------------------------------------------
(* get_daily_events *)

NoListLog == [cached |-> "unread", outcomes |-> <<>>]

StartGetDailyEvents ==
    /\ cal_pc' = "loop"
    /\ cal_idx' = 1
    /\ attempt' = 0
    /\ meeting_events' = <<>>
    /\ cal_result' = <<>>
    /\ requests' = 0
    /\ failed_cal' = 0
    /\ list_log' = NoListLog
    /\ event_cal' = <<>>

(* a direct call of get_daily_events *)
CallGetDailyEvents ==
    /\ cal_pc \in {"idle", "returned", "raised"}
    /\ StartGetDailyEvents
    /\ UNCHANGED <<envVars, callVars, cache, crmVars, briefVars>>

(* Top of the for loop: read the cache (a failing read counts as a miss); a  *)
(* non-empty cached list is processed at once, otherwise the request loop    *)
(* starts.                                                                  *)
CalendarCacheRead ==
    /\ cal_pc = "loop"
    /\ cal_idx <= Len(calendar_ids)
    /\ \E read_ok \in BOOLEAN :
         LET calendar_id  == calendar_ids[cal_idx]
             got          == IF read_ok THEN CacheGet(GcalKey(calendar_id)) ELSE None
             cached_items == IF got = None THEN <<>> ELSE Val(got)
         IN  /\ list_log' = [cached   |-> IF ~read_ok THEN "error"
                                           ELSE IF cached_items # <<>> THEN "hit" ELSE "miss",
                              outcomes |-> <<>>]
             /\ IF cached_items # <<>>
                THEN /\ meeting_events' = meeting_events \o ProcessItems(calendar_id, cached_items)
                     /\ event_cal' = event_cal \o [i \in 1..Len(ProcessItems(calendar_id, cached_items))
                                                     |-> calendar_id]
                     /\ cal_idx' = cal_idx + 1
                     /\ UNCHANGED <<cal_pc, attempt>>
                ELSE /\ cal_pc' = "api"
                     /\ attempt' = 0
                     /\ UNCHANGED <<meeting_events, cal_idx, event_cal>>
    /\ requests' = 0
    /\ UNCHANGED <<envVars, callVars, cache, cal_result, failed_cal, crmVars, briefVars>>

(* One execution of events().list(...).execute() inside the while loop *)
EventsListExecute ==
    /\ cal_pc = "api"
    /\ requests' = requests + 1
    /\ LET calendar_id == calendar_ids[cal_idx] IN
       \E outcome \in {"ok", "transient", "permanent", "other"} :
         /\ list_log' = [list_log EXCEPT !.outcomes = Append(@, outcome)]
         /\ CASE outcome = "ok" ->
                   \E write_ok \in BOOLEAN :
                     LET items == source[calendar_id] IN
                     /\ cache' = IF write_ok
                                 THEN CachePut(GcalKey(calendar_id), items, GcalTtl)
                                 ELSE cache
                     /\ meeting_events' = meeting_events \o ProcessItems(calendar_id, items)
                     /\ event_cal' = event_cal \o [i \in 1..Len(ProcessItems(calendar_id, items))
                                                     |-> calendar_id]
                     /\ cal_idx' = cal_idx + 1
                     /\ cal_pc' = "loop"
                     /\ UNCHANGED <<attempt, cal_result, failed_cal>>
              [] outcome \in {"transient", "permanent"} ->
                   /\ attempt' = attempt + 1
                   /\ IF attempt + 1 >= MaxListAttempts \/ ~should_retry_http_error(outcome)
                      THEN \* raise; the outer except HttpError returns []
                           /\ cal_pc' = "returned"
                           /\ cal_result' = <<>>
                           /\ failed_cal' = cal_idx
                      ELSE UNCHANGED <<cal_pc, cal_result, failed_cal>>
                   /\ UNCHANGED <<cache, meeting_events, cal_idx, event_cal>>
              [] outcome = "other" ->
                   \* not an HttpError: no handler in get_daily_events
                   /\ cal_pc' = "raised"
                   /\ UNCHANGED <<cache, meeting_events, cal_idx, attempt, cal_result, failed_cal,
                                  event_cal>>
    /\ UNCHANGED <<envVars, callVars, crmVars, briefVars>>

(* return meeting_events *)
GetDailyEventsReturn ==
    /\ cal_pc = "loop"
    /\ cal_idx > Len(calendar_ids)
    /\ cal_pc' = "returned"
    /\ cal_result' = meeting_events
    /\ UNCHANGED <<envVars, callVars, cache, cal_idx, attempt, meeting_events, requests, failed_cal, list_log,
                   event_cal, crmVars, briefVars>>

---------------------------------------------------------------------------
(* The CRM source: what the Affinity API holds for the people of the model *)
Carol == Email("carol", "other.com")
Bob   == Email("bob", "acme.com")
Dave  == Email("dave", "partner.com")
Ann   == Email("Ann", "Acme.com")
Erin  == Email("erin", "ext.com")

(* GET /persons?term=email: the first match, or nothing *)
CrmPerson(email) ==
    CASE LowerEmail(email) = Carol -> Some([id |-> 1])
      [] LowerEmail(email) = Bob   -> Some([id |-> 2])
      [] LowerEmail(email) = Dave  -> Some([id |-> 3])
      [] OTHER -> None

(* GET /persons/{id} *)
CrmDetails(id) ==
    CASE id = 1 -> [organizations |-> <<[name |-> Some("Other Inc"), domain |-> Some("other.com"),
                                         website_domain |-> None, website_url |-> None]>>,
                    social_profiles |-> <<[type |-> "linkedin", url |-> Some("li:carol")]>>]
      [] id = 2 -> [organizations |-> <<>>, social_profiles |-> <<>>]
      [] OTHER  -> [organizations |-> <<[name |-> Some("Partner LLC"), domain |-> None,
                                         website_domain |-> Some("partner.com"),
                                         website_url |-> Some("www:partner")]>>,
                    social_profiles |-> <<[type |-> "twitter", url |-> Some("tw:dave")]>>]

(* GET /persons/{id}/list-entries: entries with their field values;      *)
(* linkedin says whether the value contains "linkedin.com"               *)
CrmEntries(id) ==
    IF id = 2
    THEN <<[fields |-> <<[name |-> "stage", value |-> "lead", linkedin |-> FALSE],
                         [name |-> "linkedin url", value |-> "li:bob", linkedin |-> TRUE]>>]>>
    ELSE <<>>

(* GET /persons/fields *)
CrmFields == [data |-> <<[id |-> 7, name |-> "LinkedIn URL"], [id |-> 8, name |-> "Stage"]>>]
EmptyDict == [data |-> <<>>]

(* GET /v1/persons/{id} *)
CrmV1(id) ==
    IF id = 3 THEN [linkedin_url |-> Some("li:dave"), social_profiles |-> <<>>]
    ELSE [linkedin_url |-> None, social_profiles |-> <<>>]

(* GET /persons/{id}/notes: a body is its whitespace-separated tokens and *)
(* its length class: "short" (up to 120 characters), "mid" (121 to 200),  *)
(* "long" (more than 200)                                                 *)
CrmNotes(id) ==
    IF id = 1
    THEN <<[body |-> [tokens |-> <<>>, size |-> "short"],
            created_at |-> Some("d3"), updated_at |-> None],
           [body |-> [tokens |-> <<"see", "https://deck">>, size |-> "short"],
            created_at |-> None, updated_at |-> Some("d2")],
           [body |-> [tokens |-> <<"intro", "call">>, size |-> "long"],
            created_at |-> Some("d1"), updated_at |-> None]>>
    ELSE <<>>

CrmData(kind, arg) ==
    CASE kind = "person"  -> CrmPerson(arg)
      [] kind = "details" -> Some(CrmDetails(arg))
      [] kind = "v1"      -> Some(CrmV1(arg))
      [] kind = "fields"  -> Some(CrmFields)
      [] kind = "entries" -> CrmEntries(arg)
      [] OTHER            -> CrmNotes(arg)

(* Bounds *)
MaxLookups == 3     \* direct lookup calls in one run of the model

(* Program constants *)
CrmTtl   == 86400   \* 60 * 60 * 24
CrmTries == 3
V1Tries  == 2

(* make_key("aff", ...) of each lookup; the person key lower-cases the email *)
LookupKey(kind, arg) ==
    IF kind = "person" THEN <<"aff", kind, LowerEmail(arg)>> ELSE <<"aff", kind, arg>>

(* tries= of the decorator on each method *)
Tries(kind) == IF kind = "v1" THEN V1Tries ELSE CrmTries

NoLookup ==
    [kind |-> "none", arg |-> 0, pc |-> "none", attempt |-> 0, result |-> None,
     net |-> 0, last_net |-> "none", hit |-> FALSE, stored |-> FALSE, exc |-> "none"]

StartLookup(kind, arg) == [NoLookup EXCEPT !.kind = kind, !.arg = arg, !.pc = "running"]

Return(l, value) == [l EXCEPT !.pc = "returned", !.result = value]

(* async_retry's except branch, on an exception whose text is `exc` *)
async_retry(l, exc) ==
    IF l.attempt + 1 >= Tries(l.kind) \/ ~should_retry_http_error(exc)
    THEN [l EXCEPT !.attempt = @ + 1, !.pc = "raised", !.result = None, !.exc = exc]
    ELSE [l EXCEPT !.attempt = @ + 1, !.exc = exc]

(* One run of the body of find_person_by_email, get_person_details or      *)
(* get_person_v1: the cache read (outside the try, so its exception reaches *)
(* the decorator), then the request, whose every exception, the cache       *)
(* write's included, is caught and answered with None.                      *)
CachedLookupAttempt ==
    /\ lk.pc = "running"
    /\ lk.kind \in {"person", "details", "v1"}
    /\ LET key == LookupKey(lk.kind, lk.arg) IN
       \E rd \in {"ok", "transient", "permanent"} :
         IF rd # "ok"
         THEN /\ lk' = async_retry(lk, rd)
              /\ UNCHANGED <<cache, net_by_key>>
         ELSE IF CacheGet(key) # None
         THEN /\ lk' = Return([lk EXCEPT !.hit = TRUE], CacheGet(key))
              /\ UNCHANGED <<cache, net_by_key>>
         ELSE \E net \in {"ok", "transient", "permanent"} :
              LET l == [lk EXCEPT !.net = @ + 1, !.last_net = net]
                  data == CrmData(lk.kind, lk.arg)
              IN  IF net = "ok" /\ data # None
                  THEN \E write_ok \in BOOLEAN :
                         IF write_ok
                         THEN /\ cache' = CachePut(key, Val(data), CrmTtl)
                              /\ lk' = Return([l EXCEPT !.stored = TRUE], data)
                              /\ net_by_key' = [net_by_key EXCEPT ![<<lk.kind, lk.arg>>] = @ + 1]
                         ELSE /\ lk' = Return([l EXCEPT !.last_net = "ok_unstored"], None)
                              /\ UNCHANGED <<cache, net_by_key>>
                  ELSE /\ lk' = Return(l, None)
                       /\ UNCHANGED <<cache, net_by_key>>
    /\ UNCHANGED <<envVars, callVars, calVars, person_fields_cache, linkedin_field_ids, lookups, briefVars>>

(* One run of the body of get_person_fields *)
GetPersonFieldsAttempt ==
    /\ lk.pc = "running"
    /\ lk.kind = "fields"
    /\ LET key == LookupKey(lk.kind, lk.arg) IN
       IF person_fields_cache # None
       THEN /\ lk' = Return(lk, person_fields_cache)
            /\ UNCHANGED <<cache, net_by_key, person_fields_cache>>
       ELSE \E rd \in {"ok", "transient", "permanent"} :
         IF rd # "ok"
         THEN /\ lk' = async_retry(lk, rd)
              /\ UNCHANGED <<cache, net_by_key, person_fields_cache>>
         ELSE IF CacheGet(key) # None
         THEN /\ person_fields_cache' = CacheGet(key)
              /\ lk' = Return([lk EXCEPT !.hit = TRUE], CacheGet(key))
              /\ UNCHANGED <<cache, net_by_key>>
         ELSE \E net \in {"ok", "transient", "permanent"}, write_ok \in BOOLEAN :
              LET l == [lk EXCEPT !.net = @ + 1,
                                  !.last_net = IF net = "ok" /\ ~write_ok
                                               THEN "ok_unstored" ELSE net] IN
              IF net = "ok" /\ write_ok
              THEN /\ person_fields_cache' = Some(CrmFields)
                   /\ cache' = CachePut(key, CrmFields, CrmTtl)
                   /\ lk' = Return([l EXCEPT !.stored = TRUE], Some(CrmFields))
                   /\ net_by_key' = [net_by_key EXCEPT ![<<lk.kind, lk.arg>>] = @ + 1]
              ELSE /\ person_fields_cache' = Some(EmptyDict)
                   /\ lk' = Return(l, Some(EmptyDict))
                   /\ UNCHANGED <<cache, net_by_key>>
    /\ UNCHANGED <<envVars, callVars, calVars, linkedin_field_ids, lookups, briefVars>>

(* get_person_list_entries (the definition in effect, the second one of the *)
(* class) and get_person_notes: one request, no cache, no decorator         *)
UncachedLookup ==
    /\ lk.pc = "running"
    /\ lk.kind \in {"entries", "notes"}
    /\ \E net \in {"ok", "transient", "permanent"} :
         /\ net_by_key' = [net_by_key EXCEPT ![<<lk.kind, lk.arg>>] =
                                                IF net = "ok" /\ CrmData(lk.kind, lk.arg) # <<>>
                                                THEN @ + 1 ELSE @]
         /\ lk' = Return([lk EXCEPT !.net = @ + 1, !.last_net = net],
                         IF net = "ok" THEN CrmData(lk.kind, lk.arg) ELSE <<>>)
    /\ UNCHANGED <<envVars, callVars, cache, calVars, person_fields_cache, linkedin_field_ids, lookups,
                   briefVars>>

(* The lookups a caller may make *)
LookupCalls ==
    {<<"person", e>> : e \in {Carol, Ann}}
        \cup {<<k, i>> : k \in {"details", "v1", "entries", "notes"}, i \in {1, 2}}
        \cup {<<"fields", 0>>}

(* a direct call of one lookup method *)
CallLookup ==
    /\ lk.pc # "running"
    /\ lookups < MaxLookups
    /\ lookups' = lookups + 1
    /\ \E c \in LookupCalls : lk' = StartLookup(c[1], c[2])
    /\ UNCHANGED <<envVars, callVars, cache, calVars, person_fields_cache, linkedin_field_ids, net_by_key,
                   briefVars>>

(* Redis drops an entry whose TTL has run out. Expiry is taken between calls: *)
(* a call reads and writes each of its keys once, so an expiry during the call *)
(* acts as one before or after it.                                            *)
CacheExpire ==
    /\ cal_pc \in {"idle", "returned", "raised"}
    /\ lk.pc # "running"
    /\ \E k \in DOMAIN cache :
         /\ cache[k] # None
         /\ cache' = [cache EXCEPT ![k] = None]
         /\ net_by_key' = [c \in DOMAIN net_by_key |->
                             IF LookupKey(c[1], c[2]) = k THEN 0 ELSE net_by_key[c]]
    /\ UNCHANGED <<envVars, callVars, calVars, lk, person_fields_cache, linkedin_field_ids, lookups,
                   briefVars>>

---------------------------------------------------------------------------
(* enrich_attendee_info: the computations between the lookups *)

CrmFieldNames ==
    {"company", "company_domain", "website_url", "linkedin_url", "recent_emails",
     "last_note_summary", "last_note_date", "materials"}

(* f"https://{company_domain}" *)
HttpsOf(domain) == "https://" \o domain

(* company_name, company_domain and website_url, from the first organization *)
OrgInfo(person_details) ==
    IF person_details.organizations # <<>>
    THEN LET org == person_details.organizations[1]
             company_domain == IF org.domain # None THEN org.domain ELSE org.website_domain
         IN  [company_name |-> org.name,
              company_domain |-> company_domain,
              website_url |-> IF org.website_url # None THEN org.website_url
                              ELSE IF company_domain # None
                              THEN Some(HttpsOf(Val(company_domain)))
                              ELSE None]
    ELSE [company_name |-> None, company_domain |-> None, website_url |-> None]

(* the url of the first profile of type linkedin, taken as it is *)
RECURSIVE FirstLinkedin(_)
FirstLinkedin(profiles) ==
    IF profiles = <<>> THEN None
    ELSE IF Head(profiles).type = "linkedin" THEN Head(profiles).url
    ELSE FirstLinkedin(Tail(profiles))

(* field names that hold both "linkedin" and "url" once lower-cased *)
LinkedinUrlNames == {"LinkedIn URL"}

LinkedinFieldIds(meta) ==
    {meta.data[i].id : i \in {j \in 1..Len(meta.data) : meta.data[j].name \in LinkedinUrlNames}}

RECURSIVE Concat(_)
Concat(seqs) == IF seqs = <<>> THEN <<>> ELSE Head(seqs) \o Concat(Tail(seqs))

_extract_linkedin_skipped(list_entries) == None

(* the first field value, in entry order, that contains "linkedin.com" *)
_extract_linkedin_from_fields(list_entries) ==
    LET fields == Concat([i \in 1..Len(list_entries) |-> list_entries[i].fields])
        hits   == SelectSeq(fields, LAMBDA f : f.linkedin)
    IN  IF hits = <<>> THEN None ELSE Some(hits[1].value)

(* the legacy record: its linkedin_url, else its first linkedin profile with a url *)
V1Linkedin(v1_person) ==
    LET profs == SelectSeq(v1_person.social_profiles,
                           LAMBDA p : p.type = "linkedin" /\ p.url # None)
    IN  IF v1_person.linkedin_url # None THEN v1_person.linkedin_url
        ELSE IF profs # <<>> THEN profs[1].url
        ELSE None

(* body[:200] + "..." for a long body, else the body *)
Snippet(body) ==
    [tokens |-> body.tokens, size |-> IF body.size = "long" THEN "cut200" ELSE body.size]

UrlTokens == {"https://deck", "http://memo"}

(* recent_context, last_note_summary, last_note_date and materials[:3] *)
NotesInfo(notes) ==
    LET withBody  == SelectSeq(notes, LAMBDA n : n.body.tokens # <<>>)
        materials == Concat([i \in 1..Len(notes) |->
                                SelectSeq(notes[i].body.tokens, LAMBDA t : t \in UrlTokens)])
    IN  [recent_context |-> [i \in 1..Len(withBody) |-> Snippet(withBody[i].body)],
         last_note_summary |-> IF withBody = <<>> THEN None
                               ELSE Some(Snippet(withBody[1].body)),
         last_note_date |-> IF withBody = <<>> THEN None
                            ELSE IF withBody[1].created_at # None THEN withBody[1].created_at
                            ELSE withBody[1].updated_at,
         materials |-> SubSeq(materials, 1, IF Len(materials) < 3 THEN Len(materials) ELSE 3)]

NoEnrich ==
    [pc |-> "none", entry |-> None, attendee |-> None, person_id |-> 0,
     company_name |-> None, company_domain |-> None, website_url |-> None,
     linkedin_url |-> None, threw |-> "none", stopped_at |-> "none", faulty |-> FALSE,
     hard |-> FALSE, written |-> {}]

(* a cache read, a request or a cache write of the lookup `l` failed *)
LookupFaulty(l) == l.exc # "none" \/ l.last_net \notin {"none", "ok"}

(* the lookup `l` made at `stage` ended on a non-transient error that left the *)
(* attendee without a CRM record: it raised one, or it is the person search or *)
(* the details lookup and its request failed with one                          *)
LookupHardFailure(stage, l) ==
    \/ (l.pc = "raised" /\ l.exc = "permanent")
    \/ (stage \in {"person", "details"} /\ l.last_net = "permanent")

(* return attendee *)
EnrichReturn(e) == [e EXCEPT !.pc = "returned"]

(* a handler that lets the exception leave enrich_attendee_info *)
EnrichExceptReraises(e, exc) == [e EXCEPT !.pc = "raised", !.threw = exc]

(* except Exception: print, then return attendee *)
EnrichExcept(e, exc) == EnrichReturn([e EXCEPT !.threw = exc])

(* assignments made as each value is computed: the company fields are written *)
(* at once, the rest only where the notes are reached                          *)
AssignCompanyOnly(e, notes) ==
    [e EXCEPT !.attendee = Some([Val(e.attendee) EXCEPT !.company = e.company_name]),
              !.written = {"company"}]

(* the eight assignments that end the try block *)
AssignCrmFields(e, notes) ==
    LET n == NotesInfo(notes) IN
    [e EXCEPT !.attendee = Some([Val(e.attendee) EXCEPT
                                    !.company = e.company_name,
                                    !.company_domain = e.company_domain,
                                    !.website_url = e.website_url,
                                    !.linkedin_url = e.linkedin_url,
                                    !.recent_emails = Some(n.recent_context),
                                    !.last_note_summary = n.last_note_summary,
                                    !.last_note_date = n.last_note_date,
                                    !.materials = Some(n.materials)]),
              !.written = CrmFieldNames]

LookupStages == {"person", "details", "fields", "entries", "v1", "notes"}

---------------------------------------------------------------------------
(* generate_daily_brief *)

Dates == <<[year |-> 2025, month |-> 3, day |-> 7], [year |-> 2025, month |-> 11, day |-> 23]>>

MonthName(m) == IF m = 3 THEN "March" ELSE "November"

(* strftime('%B %d, %Y'): the day is zero-padded to two digits *)
FormatDate(d) == <<MonthName(d.month), " ", d.day \div 10, d.day % 10, ", ", d.year>>

(* the sentence of SummarizationService for an empty list *)
NoMeetingsToday(d) == <<"No meetings scheduled for today.">>

(* the sentence of generate_daily_brief for an empty list *)
NoMeetingsContent(d) == <<"No meetings scheduled for ">> \o FormatDate(d) \o <<".">>

BriefResponse(d, content, events_summary) ==
    [date |-> d, content |-> content, events_summary |-> events_summary, is_sent |-> FALSE]

(* generate_daily_brief(target_date): the call, up to the start of get_daily_events *)
GenerateDailyBrief ==
    /\ gen_pc = "idle"
    /\ cal_pc = "idle"
    /\ \E d \in 1..Len(Dates) : target_date' = Dates[d]
    /\ gen_pc' = "calendar"
    /\ StartGetDailyEvents
    /\ UNCHANGED <<envVars, callVars, cache, crmVars, ev_idx, att_idx, enriched_attendees,
                   enriched_events, enr, enr_log, llm, brief, gen_error, invoked, history>>

(* events = get_daily_events(...) has ended: its exception leaves the function, *)
(* an empty list gives the no-meetings brief, else _enrich_events starts        *)
AfterGetDailyEvents ==
    /\ gen_pc = "calendar"
    /\ cal_pc \in {"returned", "raised"}
    /\ IF cal_pc = "raised"
       THEN /\ gen_pc' = "raised"
            /\ gen_error' = Some([type |-> "Exception", origin |-> "get_daily_events"])
            /\ UNCHANGED brief
       ELSE IF cal_result = <<>>
       THEN /\ gen_pc' = "done"
            /\ brief' = Some(BriefResponse(target_date,
                                           [kind |-> "none", body |-> NoMeetingsContent(target_date)],
                                           <<>>))
            /\ UNCHANGED gen_error
       ELSE /\ gen_pc' = "enrich"
            /\ UNCHANGED <<brief, gen_error>>
    /\ UNCHANGED <<envVars, callVars, cache, calVars, crmVars, target_date, history, ev_idx, att_idx,
                   enriched_attendees, enriched_events, enr, enr_log, llm, invoked>>

(* _enrich_events, inner loop: enrich_attendee_info(attendee) is called and *)
(* makes its first lookup                                                   *)
EnrichAttendeeCall ==
    /\ gen_pc = "enrich"
    /\ enr.pc = "none"
    /\ ev_idx <= Len(cal_result)
    /\ att_idx <= Len(cal_result[ev_idx].attendees)
    /\ LET attendee == cal_result[ev_idx].attendees[att_idx] IN
       /\ enr' = [NoEnrich EXCEPT !.pc = "person", !.entry = Some(attendee),
                                  !.attendee = Some(attendee)]
       /\ lk' = StartLookup("person", attendee.email)
    /\ invoked' = invoked \cup {"crm"}
    /\ UNCHANGED <<envVars, callVars, cache, calVars, person_fields_cache, linkedin_field_ids,
                   net_by_key, lookups, gen_pc, target_date, history, ev_idx, att_idx,
                   enriched_attendees, enriched_events, enr_log, llm, brief, gen_error>>

(* enrich_attendee_info between two awaits: the lookup awaited has returned or *)
(* raised; the function goes on to its next lookup or returns                  *)
EnrichAttendeeStep ==
    /\ enr.pc \in LookupStages
    /\ lk.pc \in {"returned", "raised"}
    /\ LET e0 == [enr EXCEPT !.faulty = @ \/ LookupFaulty(lk),
                             !.hard = @ \/ LookupHardFailure(enr.pc, lk)]
           id == enr.person_id
       IN
       CASE lk.pc = "raised" ->
              /\ enr' = EnrichExcept(e0, lk.exc)
              /\ lk' = NoLookup
              /\ UNCHANGED linkedin_field_ids
         [] lk.pc = "returned" /\ enr.pc = "person" ->
              /\ IF lk.result = None
                 THEN /\ enr' = EnrichReturn([e0 EXCEPT !.stopped_at = "person"])
                      /\ lk' = NoLookup
                 ELSE /\ enr' = [e0 EXCEPT !.pc = "details", !.person_id = Val(lk.result).id]
                      /\ lk' = StartLookup("details", Val(lk.result).id)
              /\ UNCHANGED linkedin_field_ids
         [] lk.pc = "returned" /\ enr.pc = "details" ->
              IF lk.result = None
              THEN /\ enr' = EnrichReturn([e0 EXCEPT !.stopped_at = "details"])
                   /\ lk' = NoLookup
                   /\ UNCHANGED linkedin_field_ids
              ELSE LET org == OrgInfo(Val(lk.result))
                       linkedin_url == FirstLinkedin(Val(lk.result).social_profiles)
                       e1 == [e0 EXCEPT !.company_name = org.company_name,
                                        !.company_domain = org.company_domain,
                                        !.website_url = org.website_url,
                                        !.linkedin_url = linkedin_url]
                   IN  IF linkedin_url # None
                       THEN /\ enr' = [e1 EXCEPT !.pc = "notes"]
                            /\ lk' = StartLookup("notes", id)
                            /\ UNCHANGED linkedin_field_ids
                       ELSE IF linkedin_field_ids # None
                       THEN \* ensure_linkedin_field_ids answers from memory
                            /\ enr' = [e1 EXCEPT !.pc = "entries"]
                            /\ lk' = StartLookup("entries", id)
                            /\ UNCHANGED linkedin_field_ids
                       ELSE /\ enr' = [e1 EXCEPT !.pc = "fields"]
                            /\ lk' = StartLookup("fields", 0)
                            /\ linkedin_field_ids' = Some({})
         [] lk.pc = "returned" /\ enr.pc = "fields" ->
              /\ linkedin_field_ids' = Some(LinkedinFieldIds(Val(lk.result)))
              /\ enr' = [e0 EXCEPT !.pc = "entries"]
              /\ lk' = StartLookup("entries", id)
         [] lk.pc = "returned" /\ enr.pc = "entries" ->
              LET linkedin_url == _extract_linkedin_from_fields(lk.result) IN
              /\ IF linkedin_url # None
                 THEN /\ enr' = [e0 EXCEPT !.pc = "notes", !.linkedin_url = linkedin_url]
                      /\ lk' = StartLookup("notes", id)
                 ELSE /\ enr' = [e0 EXCEPT !.pc = "v1"]
                      /\ lk' = StartLookup("v1", id)
              /\ UNCHANGED linkedin_field_ids
         [] lk.pc = "returned" /\ enr.pc = "v1" ->
              /\ enr' = [e0 EXCEPT !.pc = "notes",
                                   !.linkedin_url = IF lk.result = None THEN None
                                                    ELSE V1Linkedin(Val(lk.result))]
              /\ lk' = StartLookup("notes", id)
              /\ UNCHANGED linkedin_field_ids
         [] lk.pc = "returned" /\ enr.pc = "notes" ->
              /\ enr' = EnrichReturn(AssignCrmFields(e0, lk.result))
              /\ lk' = NoLookup
              /\ UNCHANGED linkedin_field_ids
    /\ UNCHANGED <<envVars, callVars, cache, calVars, person_fields_cache, net_by_key, lookups,
                   gen_pc, target_date, history, ev_idx, att_idx, enriched_attendees, enriched_events,
                   enr_log, llm, brief, gen_error, invoked>>

(* what the news source may answer for one attendee (a failure counts as nothing) *)
NewsResults == {<<>>, <<"article">>}

(* _enrich_events, inner loop after enrich_attendee_info returned: the news *)
(* enrichment when an API key is configured, then the append                *)
AppendEnrichedAttendee ==
    /\ gen_pc = "enrich"
    /\ enr.pc = "returned"
    /\ IF settings.news_api_key
       THEN /\ \E unique_news \in NewsResults :
                 enriched_attendees' =
                     Append(enriched_attendees,
                            [Val(enr.attendee) EXCEPT !.news_articles = Some(unique_news)])
            /\ invoked' = invoked \cup {"news"}
       ELSE /\ enriched_attendees' = Append(enriched_attendees, Val(enr.attendee))
            /\ UNCHANGED invoked
    /\ enr_log' = Append(enr_log, [event |-> ev_idx, attendee |-> att_idx,
                                   threw |-> enr.threw, faulty |-> enr.faulty,
                                   hard |-> enr.hard])
    /\ att_idx' = att_idx + 1
    /\ enr' = NoEnrich
    /\ UNCHANGED <<envVars, callVars, cache, calVars, crmVars, gen_pc, target_date, history, ev_idx,
                   enriched_events, llm, brief, gen_error>>

(* _enrich_events, end of the inner loop: the enriched MeetingEvent is built *)
(* from seven fields of the event and appended; after the last event the     *)
(* list is returned                                                          *)
BuildEnrichedEvent ==
    /\ gen_pc = "enrich"
    /\ enr.pc = "none"
    /\ ev_idx <= Len(cal_result)
    /\ att_idx > Len(cal_result[ev_idx].attendees)
    /\ LET event == cal_result[ev_idx] IN
       enriched_events' =
           Append(enriched_events,
                  [event_id |-> event.event_id, title |-> event.title,
                   start_time |-> event.start_time, end_time |-> event.end_time,
                   attendees |-> enriched_attendees, description |-> event.description,
                   location |-> event.location,
                   meeting_url |-> None, calendar_url |-> None, duration_minutes |-> None])
    /\ enriched_attendees' = <<>>
    /\ att_idx' = 1
    /\ ev_idx' = ev_idx + 1
    /\ gen_pc' = IF ev_idx = Len(cal_result) THEN "history" ELSE "enrich"
    /\ UNCHANGED <<envVars, callVars, cache, calVars, crmVars, target_date, history, enr, enr_log, llm, brief,
                   gen_error, invoked>>

---------------------------------------------------------------------------
(* _enrich_with_history *)

PastTimed  == RawEvent("p1", 0 - 5, 0 - 4, "dateTime",
                       <<RawAttendee(Some(Email("carol", "other.com")), None),
                         [RawAttendee(Some(Email("bob", "acme.com")), None) EXCEPT !.self = TRUE]>>,
                       FALSE, None)
PastAllDay == RawEvent("p2", 0 - 3, 0 - 2, "date",
                       <<RawAttendee(Some(Email("carol", "other.com")), None)>>, FALSE, None)
PastRecent == RawEvent("p3", 0 - 1, 0, "dateTime",
                       <<RawAttendee(Some(Email("Carol", "other.com")), None),
                         RawAttendee(Some(Email("dave", "partner.com")), None)>>, FALSE, None)
PastEmpty  == RawEvent("p4", 0 - 2, 0 - 1, "dateTime", <<>>, FALSE, None)

PastPool == <<PastTimed, PastAllDay, PastRecent, PastEmpty>>

(* what the calendar may hold for the lookback window, in start-time order *)
PastLists == {<<>>, <<1, 4, 3>>, <<1, 2>>}

(* get_events_for_date_range: the body of its try block on the items returned *)
RECURSIVE EventsForDateRange(_)
EventsForDateRange(items) ==
    IF items = <<>> THEN <<>>
    ELSE LET event == PastPool[Head(items)]
             with  == SelectSeq(event.attendees, LAMBDA a : a.email # None /\ ~a.self)
             attendee_infos ==
                 [i \in 1..Len(with) |->
                     AttendeeInfo(Val(with[i].email),
                                  IF with[i].displayName # None THEN Val(with[i].displayName)
                                  ELSE <<Val(with[i].email).local>>)]
             start_time == ParseTime(event.start)
             end_time   == ParseTime(event.end)
         IN  (IF event.attendees = <<>> \/ attendee_infos = <<>> THEN <<>>
              ELSE << [event_id |-> event.id,
                       title |-> IF event.summary # None THEN Val(event.summary)
                                 ELSE <<"Untitled Meeting">>,
                       start_time |-> start_time, end_time |-> end_time,
                       attendees |-> attendee_infos,
                       description |-> event.description, location |-> event.location,
                       meeting_url |-> _extract_meeting_url(event),
                       calendar_url |-> event.htmlLink,
                       duration_minutes |-> Some(end_time.t - start_time.t)] >>)
             \o EventsForDateRange(Tail(items))

(* unique_emails: the lower-cased emails of the attendees of the events *)
UniqueEmails(events) ==
    UNION { {LowerEmail(events[i].attendees[j].email) : j \in 1..Len(events[i].attendees)} :
            i \in 1..Len(events) }

(* the (email, start_time) pairs the stats loop visits, in its order, kept *)
(* when the email is one of unique_emails                                  *)
Occurrences(past_events, unique_emails) ==
    SelectSeq(Concat([i \in 1..Len(past_events) |->
                        [j \in 1..Len(past_events[i].attendees) |->
                            [email |-> LowerEmail(past_events[i].attendees[j].email),
                             st |-> past_events[i].start_time]]]),
              LAMBDA o : o.email \in unique_emails)

OccurrencesOf(occ, email) == SelectSeq(occ, LAMBDA o : o.email = email)

(* st > last raises TypeError when one datetime is timezone-aware and the *)
(* other is not                                                           *)
HistoryRaises(occ) ==
    \E i, j \in 1..Len(occ) : occ[i].email = occ[j].email /\ occ[i].st.aware # occ[j].st.aware

(* email_to_last[email]: the latest start_time seen, the first of equal ones *)
EmailToLast(occ, email) ==
    LET mine == OccurrencesOf(occ, email)
        best == CHOOSE i \in 1..Len(mine) :
                    /\ \A j \in 1..Len(mine) : mine[j].st.t <= mine[i].st.t
                    /\ \A j \in 1..(i - 1) : mine[j].st.t < mine[i].st.t
    IN  mine[best].st

ApplyHistoryAccumulating(events, occ) ==
    [i \in 1..Len(events) |->
        [events[i] EXCEPT !.attendees =
            [j \in 1..Len(events[i].attendees) |->
                LET att == events[i].attendees[j]
                    key == LowerEmail(att.email)
                    old == IF att.meetings_past_n_days = None THEN 0
                           ELSE Val(att.meetings_past_n_days)
                IN  IF OccurrencesOf(occ, key) = <<>> THEN att
                    ELSE [att EXCEPT !.last_meeting_date = Some(EmailToLast(occ, key)),
                                     !.meetings_past_n_days =
                                         Some(old + Len(OccurrencesOf(occ, key)))]]]]

(* the "apply to attendees" loop *)
ApplyHistory(events, occ) ==
    [i \in 1..Len(events) |->
        [events[i] EXCEPT !.attendees =
            [j \in 1..Len(events[i].attendees) |->
                LET att == events[i].attendees[j]
                    key == LowerEmail(att.email)
                IN  IF OccurrencesOf(occ, key) = <<>> THEN att
                    ELSE [att EXCEPT !.last_meeting_date = Some(EmailToLast(occ, key)),
                                     !.meetings_past_n_days = Some(Len(OccurrencesOf(occ, key)))]]]]

(* _enrich_with_history(enriched_events): one request for the past events *)
(* (an HttpError gives the empty list, any other exception leaves the     *)
(* function), the stats, then the in-place update of the attendees        *)
EnrichWithHistory ==
    /\ gen_pc = "history"
    /\ LET unique_emails == UniqueEmails(enriched_events) IN
       IF enriched_events = <<>> \/ unique_emails = {}
       THEN /\ gen_pc' = "summarize"
            /\ UNCHANGED <<enriched_events, gen_error, invoked, history>>
       ELSE /\ invoked' = invoked \cup {"history"}
            /\ \E outcome \in {"ok", "http_error", "other"} :
               \E items \in (IF outcome = "ok" THEN PastLists ELSE {<<>>}) :
                 LET past_events == EventsForDateRange(items)
                     occ == Occurrences(past_events, unique_emails)
                 IN  /\ IF outcome = "other"
                        THEN /\ gen_pc' = "raised"
                             /\ gen_error' = Some([type |-> "Exception",
                                                   origin |-> "get_events_for_date_range"])
                             /\ UNCHANGED enriched_events
                        ELSE IF HistoryRaises(occ)
                        THEN /\ gen_pc' = "raised"
                             /\ gen_error' = Some([type |-> "TypeError",
                                                   origin |-> "_enrich_with_history"])
                             /\ UNCHANGED enriched_events
                        ELSE /\ gen_pc' = "summarize"
                             /\ enriched_events' = ApplyHistory(enriched_events, occ)
                             /\ UNCHANGED gen_error
                     /\ history' = Some([items |-> items, outcome |-> outcome, runs |-> 1,
                                          first |-> enriched_events'])
    /\ UNCHANGED <<envVars, callVars, cache, calVars, crmVars, target_date, ev_idx, att_idx,
                   enriched_attendees, enr, enr_log, llm, brief>>

(* _enrich_with_history run once more on the events it has annotated, the *)
(* calendar answering as it did the first time                            *)
EnrichWithHistoryAgain ==
    /\ gen_pc \in {"summarize", "raised"}
    /\ history # None
    /\ Val(history).runs < 2
    /\ LET occ == Occurrences(EventsForDateRange(Val(history).items),
                              UniqueEmails(enriched_events))
       IN  enriched_events' = IF Val(history).outcome = "other" \/ HistoryRaises(occ)
                              THEN enriched_events
                              ELSE ApplyHistory(enriched_events, occ)
    /\ history' = Some([Val(history) EXCEPT !.runs = 2])
    /\ UNCHANGED <<envVars, callVars, cache, calVars, crmVars, gen_pc, target_date, ev_idx,
                   att_idx, enriched_attendees, enr, enr_log, llm, brief, gen_error, invoked>>

---------------------------------------------------------------------------
(* SummarizationService *)

(* raw.strip().split() *)
Words(raw) == SelectSeq(raw, LAMBDA t : t # " ")

(* re.sub(r"[^A-Za-z'\-]", "", first).capitalize() on the tokens of the model *)
CleanCapitalize(first) ==
    CASE first = "bob"   -> "Bob"
      [] first = "carol" -> "Carol"
      [] first = "Carol" -> "Carol"
      [] first = "dave"  -> "Dave"
      [] first = "erin"  -> "Erin"
      [] first = "ann"   -> "Ann"
      [] first = "alice" -> "Alice"
      [] OTHER -> first

(* normalize_name: raised stands for the IndexError of [0] on an empty split *)
normalize_name(raw) ==
    IF raw = <<>> THEN [raised |-> FALSE, name |-> ""]
    ELSE IF Words(raw) = <<>> THEN [raised |-> TRUE, name |-> ""]
    ELSE [raised |-> FALSE, name |-> CleanCapitalize(Words(raw)[1])]

InternalPrefixed == {"internal", "internal-ops", "internal.bot"}

is_internal_alias(att) ==
    \/ (Words(att.name) # <<>> /\ Lower(Words(att.name)[1]) \in InternalPrefixed)
    \/ Lower(att.email.local) \in InternalPrefixed

(* the loop of format_attendees from attendee i on, display being the names *)
(* kept so far; a name is seen when its lower-cased form is, and capitalized *)
(* names are equal exactly when their lower-cased forms are                  *)
RECURSIVE DisplayNames(_, _, _)
DisplayNames(attendees, i, display) ==
    IF i > Len(attendees) THEN [raised |-> FALSE, display |-> display]
    ELSE LET att == attendees[i]
             n   == normalize_name(IF att.name # <<>> THEN att.name ELSE <<att.email.local>>)
         IN  IF is_internal_alias(att) THEN DisplayNames(attendees, i + 1, display)
             ELSE IF n.raised THEN [raised |-> TRUE, display |-> display]
             ELSE IF n.name = "" \/ (\E k \in 1..Len(display) : display[k] = n.name)
             THEN DisplayNames(attendees, i + 1, display)
             ELSE DisplayNames(attendees, i + 1, Append(display, n.name))

max_names == 5

format_attendees(attendees) ==
    LET d     == DisplayNames(attendees, 1, <<>>)
        shown == SubSeq(d.display, 1, IF Len(d.display) < max_names THEN Len(d.display)
                                      ELSE max_names)
    IN  [raised |-> d.raised, shown |-> shown, extra |-> Len(d.display) - Len(shown),
         plus |-> IF Len(d.display) - Len(shown) > 0
                  THEN Some(Len(d.display) - Len(shown)) ELSE None]

HtmlTokens == {"<b>", "</b>", "<br>"}

(* strip_html: tags become blanks and blanks collapse *)
strip_html(text) == SelectSeq(text, LAMBDA t : t \notin HtmlTokens /\ t # " ")

RECURSIVE Dedupe(_, _)
Dedupe(s, acc) ==
    IF s = <<>> THEN acc
    ELSE Dedupe(Tail(s), IF \E k \in 1..Len(acc) : acc[k] = Head(s) THEN acc
                         ELSE Append(acc, Head(s)))

(* the note text format_about settles on: per attendee, the last note summary *)
(* if it has text, else the first recent context if it has text               *)
RECURSIVE NoteBase(_, _)
NoteBase(attendees, i) ==
    IF i > Len(attendees) THEN None
    ELSE LET att == attendees[i]
             fromNote == IF att.last_note_summary # None
                         THEN strip_html(Val(att.last_note_summary).tokens) ELSE <<>>
             fromCtx  == IF att.recent_emails # None /\ Val(att.recent_emails) # <<>>
                         THEN strip_html(Val(att.recent_emails)[1].tokens) ELSE <<>>
         IN  IF fromNote # <<>>
             THEN Some([text |-> fromNote,
                        over120 |-> Val(att.last_note_summary).size # "short"])
             ELSE IF fromCtx # <<>>
             THEN Some([text |-> fromCtx,
                        over120 |-> Val(att.recent_emails)[1].size # "short"])
             ELSE NoteBase(attendees, i + 1)

format_about(description, attendees) ==
    LET materials == Dedupe(Concat([i \in 1..Len(attendees) |->
                                      IF attendees[i].materials = None THEN <<>>
                                      ELSE Val(attendees[i].materials)]), <<>>)
        desc  == IF description = None THEN <<>> ELSE strip_html(Val(description).tokens)
        sites == SelectSeq(attendees, LAMBDA a : a.website_url # None)
    IN  IF materials # <<>>
        THEN [kind |-> "materials",
              text |-> SubSeq(materials, 1, IF Len(materials) < 2 THEN Len(materials) ELSE 2),
              cut |-> FALSE]
        ELSE IF desc # <<>>
        THEN [kind |-> "text", text |-> desc, cut |-> Val(description).size # "short"]
        ELSE IF NoteBase(attendees, 1) # None
        THEN [kind |-> "text", text |-> Val(NoteBase(attendees, 1)).text,
              cut |-> Val(NoteBase(attendees, 1)).over120]
        ELSE IF sites # <<>>
        THEN [kind |-> "site", text |-> <<Val(sites[1].website_url)>>, cut |-> FALSE]
        ELSE [kind |-> "none", text |-> <<>>, cut |-> FALSE]

(* _generate_fallback_brief: raised when a format_attendees call raised *)
_generate_fallback_brief(events) ==
    [raised |-> \E i \in 1..Len(events) : format_attendees(events[i].attendees).raised,
     header |-> [date |-> events[1].start_time.t, count |-> Len(events)],
     lines  |-> [i \in 1..Len(events) |->
                   [time_range |-> <<events[i].start_time.t, events[i].end_time.t>>,
                    title |-> events[i].title,
                    attendees |-> [shown |-> format_attendees(events[i].attendees).shown,
                                   extra |-> format_attendees(events[i].attendees).extra,
                                   plus  |-> format_attendees(events[i].attendees).plus],
                    about |-> format_about(events[i].description, events[i].attendees)]]]

(* the text of a successful language-model response *)
LlmText == <<"llm text">>

(* brief_content = generate_meeting_brief(enriched_events), then the       *)
(* BriefResponse: the language-model request succeeds or raises; when it   *)
(* raises the except branch calls the fallback formatter, whose own        *)
(* exception leaves generate_meeting_brief and generate_daily_brief        *)
GenerateMeetingBrief ==
    /\ gen_pc = "summarize"
    /\ invoked' = invoked \cup {"llm"}
    /\ \E outcome \in {"ok", "error"} :
         /\ llm' = outcome
         /\ IF outcome = "ok"
            THEN /\ brief' = Some(BriefResponse(target_date, [kind |-> "llm", body |-> LlmText],
                                                enriched_events))
                 /\ gen_pc' = "done"
                 /\ UNCHANGED gen_error
            ELSE LET fb == _generate_fallback_brief(enriched_events) IN
                 IF fb.raised
                 THEN /\ gen_pc' = "raised"
                      /\ gen_error' = Some([type |-> "IndexError",
                                            origin |-> "generate_meeting_brief"])
                      /\ UNCHANGED brief
                 ELSE /\ brief' = Some(BriefResponse(target_date,
                                           [kind |-> "fallback",
                                            body |-> <<fb.header, fb.lines>>],
                                           enriched_events))
                      /\ gen_pc' = "done"
                      /\ UNCHANGED gen_error
    /\ UNCHANGED <<envVars, callVars, cache, calVars, crmVars, target_date, history, ev_idx, att_idx,
                   enriched_attendees, enriched_events, enr, enr_log>>

(* _generate_fallback_brief(events) called with one event: a description *)
(* and attendees taken, in order, from a roster of enriched attendees     *)
Roster ==
    << AttendeeInfo(Email("alice", "ext.com"), <<"alice">>),
       AttendeeInfo(Email("internal.bot", "acme.com"), <<"internal.bot">>),
       AttendeeInfo(Email("bob", "acme.com"), <<"Bob", "Smith">>),
       [AttendeeInfo(Email("robert", "jones.com"), <<"Bob", "Jones">>)
            EXCEPT !.website_url = Some("https://jones.com")],
       [AttendeeInfo(Email("carol", "other.com"), <<"carol">>)
            EXCEPT !.materials = Some(<<"https://deck", "http://memo", "https://deck">>),
                   !.last_note_summary = Some([tokens |-> <<"see", "https://deck">>,
                                               size |-> "short"])],
       [AttendeeInfo(Email("frank", "ext.com"), <<"Frank", "Li">>)
            EXCEPT !.last_note_summary = Some([tokens |-> <<"<b>", "intro", "call", "</b>">>,
                                               size |-> "cut200"])],
       [AttendeeInfo(Email("gina", "ext.com"), <<"Gina">>)
            EXCEPT !.recent_emails = Some(<<[tokens |-> <<"follow", "up">>,
                                             size |-> "short"]>>)],
       AttendeeInfo(Email("ops", "ext.com"), <<"Internal", "Ops">>),
       AttendeeInfo(Email("hank", "ext.com"), <<"Hank">>),
       AttendeeInfo(Email("ivy", "ext.com"), <<"Ivy">>),
       AttendeeInfo(Email("erin", "ext.com"), <<" ">>) >>

RECURSIVE PickAttendees(_, _)
PickAttendees(idxs, i) ==
    IF i > Len(Roster) THEN <<>>
    ELSE (IF i \in idxs THEN <<Roster[i]>> ELSE <<>>) \o PickAttendees(idxs, i + 1)

Descriptions ==
    { None,
      Some([tokens |-> <<"<b>", "agenda", "</b>">>, size |-> "short"]),
      Some([tokens |-> <<"<br>">>, size |-> "short"]) }

GenerateFallbackBrief ==
    /\ fallback_call = None
    /\ \E description \in Descriptions, idxs \in (SUBSET (1..Len(Roster))) \ {{}} :
         LET events == << [event_id |-> "e9", title |-> <<"summary", "e9">>,
                           start_time |-> [t |-> 9, aware |-> TRUE],
                           end_time |-> [t |-> 10, aware |-> TRUE],
                           attendees |-> PickAttendees(idxs, 1),
                           description |-> description, location |-> None,
                           meeting_url |-> None, calendar_url |-> None,
                           duration_minutes |-> None] >>
         IN  fallback_call' = Some([events |-> events,
                                    raised |-> _generate_fallback_brief(events).raised,
                                    lines  |-> _generate_fallback_brief(events).lines])
    /\ UNCHANGED <<envVars, cache, calVars, crmVars, briefVars, query_range, svcVars>>

---------------------------------------------------------------------------
SettingsSet ==
    [filter_require_non_owner_attendee : BOOLEAN,
     filter_external_only : BOOLEAN,
     filter_exclude_recurring : BOOLEAN,
     internal_domains : {{}, {"partner.com", "acme.com"}},
     google_calendar_ids : {<<>>, <<CalAnn, CalBen>>},
     news_api_key : {FALSE},
     time_window_hours : {0}]

(* every lookup the pipeline can make on the people of the model *)
AllLookups ==
    {<<"person", e>> : e \in {Carol, Bob, Dave, Ann, Erin}}
        \cup {<<k, i>> : k \in {"details", "v1", "entries", "notes"}, i \in {1, 2, 3}}
        \cup {<<"fields", 0>>}

CacheKeys ==
    { GcalKey(c) : c \in {CalAnn, CalBen, Primary} }
        \cup { LookupKey(c[1], c[2]) : c \in {x \in AllLookups : x[1] \notin {"entries", "notes"}} }

(* The cache after an earlier run stored every CRM record it could *)
WarmCache ==
    [k \in CacheKeys |->
        IF k[1] = "aff" /\ CrmData(k[2], k[3]) # None
        THEN Some([value |-> Val(CrmData(k[2], k[3])), ttl |-> CrmTtl])
        ELSE None]

---------------------------------------------------------------------------
(* RedisCache: JSON values in a key-value store with expiry.  A Python    *)
(* value is a tagged tuple; a payload is the JSON text json.dumps writes, *)
(* kept as the tree of that text.                                         *)
PyNone == <<"none">>
PyInt(n) == <<"int", n>>
PyStr(x) == <<"str", x>>
PyList(xs) == <<"list", xs>>
PyTuple(xs) == <<"tuple", xs>>
PyDict(pairs) == <<"dict", pairs>>
PyDatetime == <<"datetime", "2024-01-01 09:00:00">>

(* the values handed to set_json *)
PyValues ==
    { PyNone, PyInt(1), PyStr("a"), PyStr("1"), PyList(<<>>),
      PyList(<<PyInt(1), PyStr("a")>>),
      PyList(<<PyDict(<<<<PyStr("id"), PyStr("a")>>>>)>>),
      PyDict(<<<<PyStr("id"), PyInt(1)>>>>),
      PyDict(<<<<PyStr("1"), PyStr("a")>>>>),
      PyDict(<<<<PyInt(1), PyStr("a")>>>>),
      PyTuple(<<PyInt(1), PyStr("a")>>),
      PyDatetime,
      PyDict(<<<<PyStr("id"), PyDatetime>>>>) }

RedisKeys == {"k1", "k2"}
Ttls == {600, 86400}

(* str(n) of the integers of the model *)
IntStr(n) == IF n = 1 THEN "1" ELSE "0"

(* json.dumps raises TypeError on an object it has no encoding for *)
RECURSIVE DumpsRaises(_)
DumpsRaises(v) ==
    CASE v[1] \in {"list", "tuple"} -> \E i \in 1..Len(v[2]) : DumpsRaises(v[2][i])
      [] v[1] = "dict" -> \E i \in 1..Len(v[2]) : DumpsRaises(v[2][i][2])
      [] v[1] = "datetime" -> TRUE
      [] OTHER -> FALSE

(* json.dumps: None -> null, int -> number, str -> string, list and tuple *)
(* -> array, dict -> object whose keys are strings (an int key is written *)
(* as its decimal text)                                                   *)
RECURSIVE json_dumps(_)
json_dumps(v) ==
    CASE v[1] = "none" -> <<"null">>
      [] v[1] = "int" -> <<"number", v[2]>>
      [] v[1] = "str" -> <<"string", v[2]>>
      [] v[1] \in {"list", "tuple"} ->
            <<"array", [i \in 1..Len(v[2]) |-> json_dumps(v[2][i])]>>
      [] v[1] = "dict" ->
            <<"object", [i \in 1..Len(v[2]) |->
                           << IF v[2][i][1][1] = "int" THEN IntStr(v[2][i][1][2])
                              ELSE v[2][i][1][2],
                              json_dumps(v[2][i][2]) >>]>>

(* json.loads: array -> list, object -> dict with str keys *)
RECURSIVE json_loads(_)
json_loads(p) ==
    CASE p[1] = "null" -> PyNone
      [] p[1] = "number" -> PyInt(p[2])
      [] p[1] = "string" -> PyStr(p[2])
      [] p[1] = "array" -> PyList([i \in 1..Len(p[2]) |-> json_loads(p[2][i])])
      [] p[1] = "object" ->
            PyDict([i \in 1..Len(p[2]) |-> <<PyStr(p[2][i][1]), json_loads(p[2][i][2])>>])

(* str(value) of the values json.dumps refuses *)
PyStrOf(v) == IF v = PyDatetime THEN "2024-01-01 09:00:00" ELSE "{'id': datetime.datetime(2024, 1, 1, 9, 0)}"

(* set_json: payload = json.dumps(value), or on TypeError *)
(* json.dumps({"_": str(value)})                          *)
SetPayload(value) ==
    IF DumpsRaises(value)
    THEN json_dumps(PyDict(<<<<PyStr("_"), PyStr(PyStrOf(value))>>>>))
    ELSE json_dumps(value)

GetResultMissing(key) == PyNone

(* get_json: None for a missing key, else json.loads of the stored text *)
GetResult(key) ==
    IF redis[key] = None THEN PyNone ELSE json_loads(Val(redis[key]).payload)

NoCacheCall == [op |-> "none", key |-> "k1", value |-> PyNone, result |-> PyNone]

InitCacheVars ==
    /\ redis = [k \in RedisKeys |-> None]
    /\ cache_call = NoCacheCall

SetJsonBody(op, key, value, ttl_seconds) ==
    /\ redis' = [redis EXCEPT ![key] = Some([payload |-> SetPayload(value), ex |-> ttl_seconds])]
    /\ cache_call' = [op |-> op, key |-> key, value |-> value, result |-> PyNone]

GetJsonBody(op, key) ==
    /\ cache_call' = [op |-> op, key |-> key, value |-> PyNone, result |-> GetResult(key)]
    /\ UNCHANGED redis

(* RedisCache.set_json *)
SetJson ==
    /\ \E key \in RedisKeys, value \in PyValues, ttl_seconds \in Ttls :
         SetJsonBody("set_json", key, value, ttl_seconds)
    /\ UNCHANGED <<pipelineVars, retry_call, dbVars, settings_call, taskVars>>

(* RedisCache.set_json_sync *)
SetJsonSync ==
    /\ \E key \in RedisKeys, value \in PyValues, ttl_seconds \in Ttls :
         SetJsonBody("set_json_sync", key, value, ttl_seconds)
    /\ UNCHANGED <<pipelineVars, retry_call, dbVars, settings_call, taskVars>>

(* RedisCache.get_json *)
GetJson ==
    /\ \E key \in RedisKeys : GetJsonBody("get_json", key)
    /\ UNCHANGED <<pipelineVars, retry_call, dbVars, settings_call, taskVars>>

(* RedisCache.get_json_sync *)
GetJsonSync ==
    /\ \E key \in RedisKeys : GetJsonBody("get_json_sync", key)
    /\ UNCHANGED <<pipelineVars, retry_call, dbVars, settings_call, taskVars>>

(* the store drops a key whose time to live has run out *)
RedisExpire ==
    /\ \E key \in RedisKeys :
         /\ redis[key] # None
         /\ redis' = [redis EXCEPT ![key] = None]
         /\ cache_call' = [op |-> "expire", key |-> key, value |-> PyNone, result |-> PyNone]
    /\ UNCHANGED <<pipelineVars, retry_call, dbVars, settings_call, taskVars>>

---------------------------------------------------------------------------
(* async_retry: a call of the wrapper around a function that may fail.   *)
(* Delays are counted in quarters of a second.                           *)
MaxTries == 4          \* largest `tries` a call of the model is made with
BaseDelay == 2         \* base_delay = 0.5 s
MaxDelays == {6, 8, 20}   \* max_delay = 1.5 s, 2.0 s and 5.0 s

NoRetryCall ==
    [pc |-> "idle", tries |-> 1, max_delay |-> 6, should_retry |-> FALSE,
     attempt |-> 0, delay |-> BaseDelay, outcomes |-> <<>>, waits |-> <<>>]

NextDelayUncapped(delay, max_delay) == delay * 2

(* delay = min(delay * 2, max_delay) *)
NextDelay(delay, max_delay) == Min2(delay * 2, max_delay)

(* the except branch of the wrapper, for an exception of the classes in  *)
(* `exceptions` whose text is `exc`                                      *)
RetryExcept(c, exc) ==
    IF c.attempt + 1 >= c.tries \/ (c.should_retry /\ ~should_retry_http_error(exc))
    THEN [c EXCEPT !.attempt = @ + 1, !.pc = "raised"]
    ELSE [c EXCEPT !.attempt = @ + 1, !.pc = "sleeping"]

(* entry of the wrapper: attempt = 0, delay = base_delay *)
RetryCall ==
    /\ retry_call.pc \in {"idle", "returned", "raised"}
    /\ \E tries \in 1..MaxTries, max_delay \in MaxDelays, should_retry \in BOOLEAN :
         retry_call' = [NoRetryCall EXCEPT !.pc = "calling", !.tries = tries,
                                            !.max_delay = max_delay,
                                            !.should_retry = should_retry]
    /\ UNCHANGED <<pipelineVars, cacheVars, dbVars, settings_call, taskVars>>

(* the try block: the wrapped function returns, or raises *)
RetryAttempt ==
    /\ retry_call.pc = "calling"
    /\ \E outcome \in {"ok", "transient", "permanent", "uncaught"} :
         LET c == [retry_call EXCEPT !.outcomes = Append(@, outcome)]
         IN  retry_call' =
                CASE outcome = "ok" -> [c EXCEPT !.pc = "returned"]
                  [] outcome = "uncaught" -> [c EXCEPT !.pc = "raised"]
                  [] OTHER -> RetryExcept(c, outcome)
    /\ UNCHANGED <<pipelineVars, cacheVars, dbVars, settings_call, taskVars>>

(* await asyncio.sleep(delay + random.uniform(0, delay / 2)); then the   *)
(* delay doubles up to max_delay                                         *)
RetrySleep ==
    /\ retry_call.pc = "sleeping"
    /\ \E jitter \in 0..(retry_call.delay \div 2) :
         retry_call' = [retry_call EXCEPT
                          !.waits = Append(@, [delay |-> retry_call.delay, jitter |-> jitter]),
                          !.delay = NextDelay(retry_call.delay, retry_call.max_delay),
                          !.pc = "calling"]
    /\ UNCHANGED <<pipelineVars, cacheVars, dbVars, settings_call, taskVars>>

---------------------------------------------------------------------------
(* The database: the tables user_settings and briefs as their committed  *)
(* rows.                                                                 *)
OwnerEmail == Email("ann", "acme.com")
OtherEmail == Email("dana", "other.com")

(* the bodies PUT /settings passes on: UserSettingsRequest.dict() *)
SettingsData ==
    [delivery_time : {"08:00", "07:30"}, timezone : {"America/New_York", "UTC"},
     email_address : {OwnerEmail, OtherEmail}, is_active : BOOLEAN]

NoSettingsCall == [op |-> "none", data |-> None, returned |-> None, raised |-> FALSE]

(* get_user_settings: db.query(UserSettings).first() *)
get_user_settings == IF db_settings = <<>> THEN None ELSE Some(db_settings[1])

UpdateAppendingRow(row, settings_data) ==
    db_settings \o <<[id |-> Len(db_settings) + 1] @@ settings_data>>

(* update_user_settings up to the commit: the first row with every key   *)
(* of settings_data set, or a new row when the table is empty            *)
UpdateOrCreate(row, settings_data) ==
    IF row # None
    THEN [db_settings EXCEPT ![1] = [id |-> Val(row).id] @@ settings_data]
    ELSE <<[id |-> 1] @@ settings_data>>

(* BriefService.update_user_settings; a failing commit leaves the table  *)
(* as it was and the exception goes to the caller                        *)
UpdateUserSettings ==
    /\ \E settings_data \in SettingsData, commit_ok \in BOOLEAN :
         IF commit_ok
         THEN /\ db_settings' = UpdateOrCreate(get_user_settings, settings_data)
              /\ settings_call' = [op |-> "update", data |-> Some(settings_data),
                                   returned |-> Some(db_settings'[1]), raised |-> FALSE]
         ELSE /\ UNCHANGED db_settings
              /\ settings_call' = [op |-> "update", data |-> Some(settings_data),
                                   returned |-> None, raised |-> TRUE]
    /\ UNCHANGED <<pipelineVars, cacheVars, retry_call, db_briefs, next_brief_id, taskVars>>

(* BriefService.get_user_settings *)
GetUserSettings ==
    /\ settings_call' = [op |-> "get", data |-> None, returned |-> get_user_settings,
                         raised |-> FALSE]
    /\ UNCHANGED <<pipelineVars, cacheVars, retry_call, dbVars, taskVars>>

PyBool(b) == <<"bool", b>>

NoTask ==
    [name |-> "none", pc |-> "idle", session |-> "none", args |-> None, steps |-> <<>>,
     raised |-> FALSE, result |-> None, user_settings |-> None, brief_response |-> None,
     brief_id |-> 0, success |-> None]

InitDbVars ==
    /\ db_briefs = <<>>
    /\ next_brief_id = 1
    /\ settings_call = NoSettingsCall
    /\ task = NoTask
    /\ outbox = None
    /\ clock = 0

---------------------------------------------------------------------------
(* The Celery tasks of brief_tasks.py.  One task runs at a time; a step  *)
(* of a task is one call it makes, which returns or raises.              *)
MaxBriefs == 2         \* Brief rows inserted over a run of the model
ClockDays == {0, 1}    \* the days a run of the model spans
KeepDays == 30         \* cleanup_old_briefs(days_to_keep=30)

MorningBrief == "generate_and_send_morning_brief"
BriefForDate == "generate_brief_for_date"
SendBriefEmail == "send_brief_email"
CleanupOldBriefs == "cleanup_old_briefs"

(* the arguments the tasks are called with; target 0 is a string that is *)
(* not a date                                                            *)
TaskCalls ==
    {[name |-> MorningBrief, args |-> None]}
    \cup {[name |-> BriefForDate, args |-> Some([target |-> d])] : d \in 0..Len(Dates)}
    \cup {[name |-> SendBriefEmail, args |-> Some([brief_id |-> i, user_email |-> e])] :
            i \in 1..MaxBriefs, e \in {OwnerEmail, OtherEmail}}
    \cup {[name |-> CleanupOldBriefs, args |-> Some([days_to_keep |-> k])] : k \in {0, KeepDays}}

(* what the except branch of a task returns *)
FailureValue(name) == IF name = CleanupOldBriefs THEN PyInt(0) ELSE PyBool(FALSE)

FinishLeavingSessionOpen(t, result) == [t EXCEPT !.pc = "done", !.result = Some(result)]

(* return result; finally: db.close() *)
Finish(t, result) == [t EXCEPT !.pc = "done", !.session = "closed", !.result = Some(result)]

(* except Exception: return the failure value; finally: db.close() *)
TaskExcept(t) == Finish([t EXCEPT !.raised = TRUE], FailureValue(t.name))

Step(t, name) == [t EXCEPT !.steps = Append(@, name)]

BriefRow(id) == db_briefs[CHOOSE k \in 1..Len(db_briefs) : db_briefs[k].id = id]

save_brief_as_sent(brief_response, id) ==
    [id |-> id, date |-> brief_response.date, content |-> brief_response.content,
     events_summary |-> brief_response.events_summary, created_at |-> clock,
     sent_at |-> Some(clock), is_sent |-> TRUE]

(* save_brief_to_database: the row added *)
save_brief_to_database(brief_response, id) ==
    [id |-> id, date |-> brief_response.date, content |-> brief_response.content,
     events_summary |-> brief_response.events_summary, created_at |-> clock,
     sent_at |-> None, is_sent |-> brief_response.is_sent]

settings_row_missing(user_settings) == user_settings = None

(* if not user_settings or not user_settings.is_active *)
no_active_settings(user_settings) == user_settings = None \/ ~Val(user_settings).is_active

(* the task is started: db = SessionLocal() *)
TaskBegin ==
    /\ task.pc \in {"idle", "done"}
    /\ \E call \in TaskCalls :
         /\ call.name \in {MorningBrief, BriefForDate} => next_brief_id <= MaxBriefs
         /\ task' = [NoTask EXCEPT !.name = call.name, !.args = call.args,
                                   !.session = "open",
                                   !.pc = IF call.name = CleanupOldBriefs THEN "cleanup"
                                          ELSE "construct"]
    /\ UNCHANGED <<pipelineVars, cacheVars, retry_call, dbVars, settings_call, outbox, clock>>

(* BriefService(), and in generate_brief_for_date the strptime before it *)
TaskConstruct ==
    /\ task.pc = "construct"
    /\ \E ok \in BOOLEAN :
         LET t == Step(task, "construct")
             bad_date == task.name = BriefForDate /\ Val(task.args).target = 0
         IN  task' = IF ok /\ ~bad_date
                     THEN [t EXCEPT !.pc = CASE task.name = MorningBrief -> "settings"
                                             [] task.name = BriefForDate -> "generate"
                                             [] OTHER -> "query"]
                     ELSE TaskExcept(t)
    /\ UNCHANGED <<pipelineVars, cacheVars, retry_call, dbVars, settings_call, outbox, clock>>

(* user_settings = brief_service.get_user_settings(db) and the check of it *)
TaskSettings ==
    /\ task.pc = "settings"
    /\ \E ok \in BOOLEAN :
         LET t == Step(task, "settings")
             user_settings == get_user_settings
         IN  task' = IF ~ok THEN TaskExcept(t)
                     ELSE IF no_active_settings(user_settings)
                     THEN Finish(t, PyBool(FALSE))
                     ELSE [t EXCEPT !.pc = "generate", !.user_settings = user_settings]
    /\ UNCHANGED <<pipelineVars, cacheVars, retry_call, dbVars, settings_call, outbox, clock>>

(* brief_response = await brief_service.generate_daily_brief(...) *)
TaskGenerate ==
    /\ task.pc = "generate"
    /\ \E ok \in BOOLEAN :
         LET t == Step(task, "generate")
             d == IF task.name = BriefForDate THEN Dates[Val(task.args).target] ELSE Dates[1]
         IN  task' = IF ~ok THEN TaskExcept(t)
                     ELSE [t EXCEPT !.pc = "save",
                                    !.brief_response =
                                        Some(BriefResponse(d, NoMeetingsContent(d), <<>>))]
    /\ UNCHANGED <<pipelineVars, cacheVars, retry_call, dbVars, settings_call, outbox, clock>>

(* brief = brief_service.save_brief_to_database(brief_response, db) *)
TaskSave ==
    /\ task.pc = "save"
    /\ \E commit_ok \in BOOLEAN :
         LET t == Step(task, "save") IN
         IF commit_ok
         THEN /\ db_briefs' = Append(db_briefs,
                                     save_brief_to_database(Val(task.brief_response),
                                                            next_brief_id))
              /\ next_brief_id' = next_brief_id + 1
              /\ task' = IF task.name = BriefForDate
                         THEN Finish([t EXCEPT !.brief_id = next_brief_id], PyBool(TRUE))
                         ELSE [t EXCEPT !.pc = "send", !.brief_id = next_brief_id]
         ELSE /\ task' = TaskExcept(t)
              /\ UNCHANGED <<db_briefs, next_brief_id>>
    /\ UNCHANGED <<pipelineVars, cacheVars, retry_call, db_settings, settings_call, outbox, clock>>

(* send_brief_email: brief = db.query(Brief).filter(Brief.id == brief_id).first() *)
TaskQuery ==
    /\ task.pc = "query"
    /\ \E ok \in BOOLEAN :
         LET t == Step(task, "query")
             brief_id == Val(task.args).brief_id
             found == \E k \in 1..Len(db_briefs) : db_briefs[k].id = brief_id
         IN  task' = IF ~ok THEN TaskExcept(t)
                     ELSE IF ~found THEN Finish(t, PyBool(FALSE))
                     ELSE [t EXCEPT !.pc = "send", !.brief_id = brief_id]
    /\ UNCHANGED <<pipelineVars, cacheVars, retry_call, dbVars, settings_call, outbox, clock>>

(* success = await brief_service.send_morning_brief(to, content), which  *)
(* answers False for every failure of its own                            *)
TaskSend ==
    /\ task.pc = "send"
    /\ \E success \in BOOLEAN :
         LET t == [Step(task, "send") EXCEPT !.success = Some(success)]
             to == IF task.name = MorningBrief THEN Val(task.user_settings).email_address
                   ELSE Val(task.args).user_email
             content == IF task.name = MorningBrief THEN Val(task.brief_response).content
                        ELSE BriefRow(task.brief_id).content
         IN  /\ outbox' = IF success THEN Some([to |-> to, content |-> content]) ELSE outbox
             /\ task' = IF success THEN [t EXCEPT !.pc = "mark"] ELSE Finish(t, PyBool(FALSE))
    /\ UNCHANGED <<pipelineVars, cacheVars, retry_call, dbVars, settings_call, clock>>

(* brief.is_sent = True; brief.sent_at = datetime.now(); db.commit() *)
TaskMarkSent ==
    /\ task.pc = "mark"
    /\ \E commit_ok \in BOOLEAN :
         LET t == Step(task, "mark") IN
         IF commit_ok
         THEN /\ db_briefs' = [k \in 1..Len(db_briefs) |->
                                 IF db_briefs[k].id = task.brief_id
                                 THEN [db_briefs[k] EXCEPT !.is_sent = TRUE,
                                                           !.sent_at = Some(clock)]
                                 ELSE db_briefs[k]]
              /\ task' = Finish(t, PyBool(TRUE))
         ELSE /\ task' = TaskExcept(t)
              /\ UNCHANGED db_briefs
    /\ UNCHANGED <<pipelineVars, cacheVars, retry_call, db_settings, next_brief_id, settings_call,
                   outbox, clock>>

(* cleanup_old_briefs: delete the rows created before the cutoff, commit *)
TaskCleanup ==
    /\ task.pc = "cleanup"
    /\ \E ok \in BOOLEAN :
         LET t == Step(task, "cleanup")
             cutoff_date == clock - Val(task.args).days_to_keep
             kept == SelectSeq(db_briefs, LAMBDA b : ~(b.created_at < cutoff_date))
         IN  IF ok
             THEN /\ db_briefs' = kept
                  /\ task' = Finish(t, PyInt(Len(db_briefs) - Len(kept)))
             ELSE /\ task' = TaskExcept(t)
                  /\ UNCHANGED db_briefs
    /\ UNCHANGED <<pipelineVars, cacheVars, retry_call, db_settings, next_brief_id, settings_call,
                   outbox, clock>>

(* a day passes between two tasks *)
Tick ==
    /\ task.pc \in {"idle", "done"}
    /\ clock + 1 \in ClockDays
    /\ clock' = clock + 1
    /\ UNCHANGED <<pipelineVars, cacheVars, retry_call, dbVars, settings_call, task, outbox>>

---------------------------------------------------------------------------
InitPipeline ==
    /\ settings = [filter_require_non_owner_attendee |-> TRUE,
                   filter_external_only |-> TRUE,
                   filter_exclude_recurring |-> TRUE,
                   internal_domains |-> {},
                   google_calendar_ids |-> <<>>,
                   news_api_key |-> FALSE,
                   time_window_hours |-> 0]
    /\ source = [c \in {CalAnn, CalBen, Primary} |-> <<>>]
    /\ cache = [k \in CacheKeys |-> None]

InitRestButSettings ==
    /\ cal_pc = "idle"
    /\ cal_idx = 1
    /\ attempt = 0
    /\ meeting_events = <<>>
    /\ cal_result = <<>>
    /\ requests = 0
    /\ failed_cal = 0
    /\ list_log = NoListLog
    /\ event_cal = <<>>
    /\ lk = NoLookup
    /\ person_fields_cache = None
    /\ linkedin_field_ids = None
    /\ net_by_key = [c \in AllLookups |-> 0]
    /\ lookups = 0
    /\ target_date = Dates[1]
    /\ ev_idx = 1
    /\ att_idx = 1
    /\ enriched_attendees = <<>>
    /\ enr = NoEnrich
    /\ enr_log = <<>>
    /\ llm = "none"
    /\ brief = None
    /\ gen_error = None
    /\ invoked = {}
    /\ history = None
    /\ query_range = None
    /\ fallback_call = None
    /\ InitCacheVars
    /\ retry_call = NoRetryCall
    /\ InitDbVars

InitRest ==
    /\ InitRestButSettings
    /\ db_settings = <<>>

InitIdle ==
    /\ gen_pc = "idle"
    /\ enriched_events = <<>>
    /\ InitRest

InitCalendar ==
    /\ cache = [k \in CacheKeys |-> None]
    /\ settings \in SettingsSet
    /\ \E items \in ItemLists, other \in {1, 2, 3} :
         source = [c \in {CalAnn, CalBen, Primary} |->
                     IF c = CalBen
                     THEN (CASE other = 1 -> <<>> [] other = 2 -> <<3>> [] OTHER -> items)
                     ELSE items]
    /\ InitIdle

vars == <<envVars, cache, calVars, crmVars, briefVars, callVars>>

NextCalendar ==
    \/ CallGetDailyEvents
    \/ CalendarCacheRead
    \/ EventsListExecute
    \/ GetDailyEventsReturn
    \/ CacheExpire

SpecCalendar == InitCalendar /\ [][NextCalendar]_vars

(* The CRM lookups called directly, any of them in any order *)
InitCrm ==
    /\ settings \in {s \in SettingsSet : s.filter_external_only /\ s.filter_exclude_recurring
                                          /\ s.filter_require_non_owner_attendee
                                          /\ s.internal_domains = {}
                                          /\ s.google_calendar_ids = <<>>}
    /\ source = [c \in {CalAnn, CalBen, Primary} |-> <<>>]
    /\ cache = [k \in CacheKeys |-> None]
    /\ InitIdle

NextCrm ==
    \/ CallLookup
    \/ CachedLookupAttempt
    \/ GetPersonFieldsAttempt
    \/ UncachedLookup
    \/ CacheExpire

SpecCrm == InitCrm /\ [][NextCrm]_vars

(* One generation of the daily brief on the primary calendar *)
TodayLists == {<<>>, <<3>>, <<6, 7>>}

InitBrief ==
    /\ \E key \in BOOLEAN :
         settings = [filter_require_non_owner_attendee |-> TRUE,
                     filter_external_only |-> TRUE,
                     filter_exclude_recurring |-> TRUE,
                     internal_domains |-> {},
                     google_calendar_ids |-> <<>>,
                     news_api_key |-> key,
                     time_window_hours |-> 0]
    /\ \E items \in TodayLists : source = [c \in {CalAnn, CalBen, Primary} |-> items]
    /\ cache \in {[k \in CacheKeys |-> None], WarmCache}
    /\ InitIdle

NextBrief ==
    \/ GenerateDailyBrief
    \/ CalendarCacheRead
    \/ EventsListExecute
    \/ GetDailyEventsReturn
    \/ AfterGetDailyEvents
    \/ EnrichAttendeeCall
    \/ CachedLookupAttempt
    \/ GetPersonFieldsAttempt
    \/ UncachedLookup
    \/ EnrichAttendeeStep
    \/ AppendEnrichedAttendee
    \/ BuildEnrichedEvent
    \/ EnrichWithHistory
    \/ GenerateMeetingBrief

SpecBrief == InitBrief /\ [][NextBrief]_vars

(* _enrich_with_history on its own, called with the events _enrich_events *)
(* builds from a day of the primary calendar when the CRM knows nobody     *)
PlainEnriched(events) ==
    [i \in 1..Len(events) |->
        [events[i] EXCEPT !.meeting_url = None, !.calendar_url = None,
                          !.duration_minutes = None]]

InitHistory ==
    /\ settings = [filter_require_non_owner_attendee |-> TRUE,
                   filter_external_only |-> TRUE,
                   filter_exclude_recurring |-> TRUE,
                   internal_domains |-> {},
                   google_calendar_ids |-> <<>>,
                   news_api_key |-> FALSE,
                   time_window_hours |-> 0]
    /\ \E items \in ItemLists : source = [c \in {CalAnn, CalBen, Primary} |-> items]
    /\ cache = [k \in CacheKeys |-> None]
    /\ gen_pc = "history"
    /\ enriched_events = PlainEnriched(ProcessItems(Primary, source[Primary]))
    /\ InitRest

NextHistory ==
    \/ EnrichWithHistory
    \/ EnrichWithHistoryAgain

SpecHistory == InitHistory /\ [][NextHistory]_vars

(* The fallback formatter on its own *)
InitFallback ==
    /\ settings = [filter_require_non_owner_attendee |-> TRUE,
                   filter_external_only |-> TRUE,
                   filter_exclude_recurring |-> TRUE,
                   internal_domains |-> {},
                   google_calendar_ids |-> <<>>,
                   news_api_key |-> FALSE,
                   time_window_hours |-> 0]
    /\ source = [c \in {CalAnn, CalBen, Primary} |-> <<>>]
    /\ cache = [k \in CacheKeys |-> None]
    /\ InitIdle

NextFallback == GenerateFallbackBrief

SpecFallback == InitFallback /\ [][NextFallback]_vars

(* The services below the pipeline, each on its own: the cache wrapper *)
InitServices == InitPipeline /\ InitIdle

NextCache ==
    \/ SetJson
    \/ SetJsonSync
    \/ GetJson
    \/ GetJsonSync
    \/ RedisExpire

SpecCache == InitServices /\ [][NextCache]_vars

(* The settings calls of the API, in any order, from an empty table *)
NextSettings ==
    \/ UpdateUserSettings
    \/ GetUserSettings

SpecSettings == InitServices /\ [][NextSettings]_vars

(* The tasks, run one after the other on a database whose settings table *)
(* is empty or holds one row, inactive or active                         *)
SettingsRow(active) ==
    [id |-> 1, delivery_time |-> "08:00", timezone |-> "America/New_York",
     email_address |-> OwnerEmail, is_active |-> active]

InitTasks ==
    /\ InitPipeline
    /\ gen_pc = "idle"
    /\ enriched_events = <<>>
    /\ cal_pc = "idle"
    /\ InitRestButSettings
    /\ db_settings \in {<<>>, <<SettingsRow(FALSE)>>, <<SettingsRow(TRUE)>>}

NextTasks ==
    \/ TaskBegin
    \/ TaskConstruct
    \/ TaskSettings
    \/ TaskGenerate
    \/ TaskSave
    \/ TaskQuery
    \/ TaskSend
    \/ TaskMarkSent
    \/ TaskCleanup
    \/ Tick

SpecTasks == InitTasks /\ [][NextTasks]_vars

(* A function called through async_retry.  The wrapped function returns *)
(* or raises, and a sleep ends.                                         *)
NextRetry ==
    \/ RetryCall
    \/ RetryAttempt
    \/ RetrySleep

SpecRetry ==
    /\ InitServices
    /\ [][NextRetry]_vars
    /\ WF_vars(RetryAttempt)
    /\ WF_vars(RetrySleep)

(* The range computation on its own: every window setting, target day and *)
(* clock reading                                                          *)
WindowHours == {0, 2, 30}

InitWindow ==
    /\ \E w \in WindowHours :
         settings = [filter_require_non_owner_attendee |-> TRUE,
                     filter_external_only |-> TRUE,
                     filter_exclude_recurring |-> TRUE,
                     internal_domains |-> {},
                     google_calendar_ids |-> <<>>,
                     news_api_key |-> FALSE,
                     time_window_hours |-> w]
    /\ source = [c \in {CalAnn, CalBen, Primary} |-> <<>>]
    /\ cache = [k \in CacheKeys |-> None]
    /\ InitIdle

NextWindow == GetDailyEventsRange

SpecWindow == InitWindow /\ [][NextWindow]_vars

---------------------------------------------------------------------------
(* Properties of calendar retrieval (SpecCalendar) *)

(* What the calendars other than `skip` contribute, in query order *)
RECURSIVE ContributionsFrom(_, _)
ContributionsFrom(i, skip) ==
    IF i > Len(calendar_ids) THEN <<>>
    ELSE (IF i = skip THEN <<>> ELSE ProcessItems(calendar_ids[i], source[calendar_ids[i]]))
         \o ContributionsFrom(i + 1, skip)

(* C1: with several calendars configured, when the retrieval of one calendar *)
(* fails with an HttpError, the returned list still holds the events of every *)
(* other calendar, queried before or after the failing one.                  *)
C1_FailureIsolatedPerCalendar ==
    (cal_pc = "returned" /\ failed_cal # 0 /\ Len(calendar_ids) > 1)
        => cal_result = ContributionsFrom(1, failed_cal)

(* C10: an event with zero attendees is never in the list get_daily_events *)
(* returns, whatever the filter toggles are.                               *)
C10_ZeroAttendeeEventDropped ==
    cal_pc = "returned" =>
        \A i \in 1..Len(cal_result) :
            \A k \in 1..Len(EventPool) :
                EventPool[k].id = cal_result[i].event_id => EventPool[k].attendees # <<>>


(* The raw calendar item a returned event was built from *)
RawOf(meeting_event) ==
    EventPool[CHOOSE k \in 1..Len(EventPool) : EventPool[k].id = meeting_event.event_id]

EmailsOf(attendees) == { attendees[j].email : j \in 1..Len(attendees) }

RawEmails(event) ==
    { Val(event.attendees[j].email) :
        j \in { n \in 1..Len(event.attendees) : event.attendees[n].email # None } }

IsIdentity(e, calendar_id) == LowerEmail(e) = LowerEmail(calendar_id)

(* C11: with the non-owner-attendee filter enabled, no attendee of a returned *)
(* event has an email equal, case-insensitively, to the identity of the      *)
(* calendar the event was read from, and an event all of whose attendees     *)
(* equal that identity is not returned.                                      *)
C11_NoOwnerAmongReturnedAttendees ==
    (cal_pc = "returned" /\ settings.filter_require_non_owner_attendee) =>
        \A i \in 1..Len(cal_result) :
            /\ \A e \in EmailsOf(cal_result[i].attendees) : ~IsIdentity(e, event_cal[i])
            /\ \E e \in RawEmails(RawOf(cal_result[i])) : ~IsIdentity(e, event_cal[i])

(* the owner, written in another case, was an attendee of a returned event, *)
(* and an event of the owner alone was among the calendar's items           *)
C11_Witness ==
    /\ cal_pc = "returned"
    /\ settings.filter_require_non_owner_attendee
    /\ 2 \in { source[CalAnn][n] : n \in 1..Len(source[CalAnn]) }
    /\ \E i \in 1..Len(cal_result) :
         /\ event_cal[i] = CalAnn
         /\ \E e \in RawEmails(RawOf(cal_result[i])) : IsIdentity(e, CalAnn) /\ e # CalAnn

(* C12: with the external-only filter enabled and a calendar identity that is *)
(* an email address of domain D, every returned event has at least one       *)
(* attendee and no attendee of domain D; bob@acme.com and carol@other.com    *)
(* under owner domain acme.com give carol@other.com alone; an event whose    *)
(* attendees all have domain D is dropped.                                   *)
C12_ExternalOnlyDropsOwnerDomain ==
    (cal_pc = "returned" /\ settings.filter_external_only) =>
        \A i \in 1..Len(cal_result) :
            event_cal[i].domain # "" =>
                /\ cal_result[i].attendees # <<>>
                /\ \A e \in EmailsOf(cal_result[i].attendees) :
                       Lower(e.domain) # Lower(event_cal[i].domain)
                /\ \E e \in RawEmails(RawOf(cal_result[i])) :
                       Lower(e.domain) # Lower(event_cal[i].domain)
                /\ (event_cal[i] = CalAnn /\ cal_result[i].event_id = "e3")
                       => [j \in 1..Len(cal_result[i].attendees) |->
                              cal_result[i].attendees[j].email]
                          = <<Email("carol", "other.com")>>

C12_Witness ==
    /\ cal_pc = "returned"
    /\ settings.filter_external_only
    /\ source[CalAnn] = <<3, 5>>
    /\ \E i \in 1..Len(cal_result) : event_cal[i] = CalAnn /\ cal_result[i].event_id = "e3"

(* The attendee emails that reach the internal-domain step: those that are *)
(* not the calendar's identity and, under the external-only filter of an   *)
(* email identity, not of its domain.                                      *)
BeforeInternalStep(calendar_id, event) ==
    { e \in RawEmails(event) :
        /\ ~IsIdentity(e, calendar_id)
        /\ (settings.filter_external_only /\ calendar_id.domain # "")
              => Lower(e.domain) # Lower(calendar_id.domain) }

OutsideList(emails) == { e \in emails : Lower(e.domain) \notin settings.internal_domains }

Returned(calendar_id, k) ==
    \E i \in 1..Len(cal_result) :
        event_cal[i] = calendar_id /\ cal_result[i].event_id = EventPool[k].id

ItemsOf(calendar_id) == { source[calendar_id][n] : n \in 1..Len(source[calendar_id]) }

ConfiguredCalendars == { calendar_ids[n] : n \in 1..Len(calendar_ids) }

(* C13: with an internal-domain list configured, the attendees of a domain *)
(* in the list are removed exactly when an attendee outside the list       *)
(* remains; otherwise the attendees from before the step are kept, and the *)
(* step neither empties an attendee list nor causes an event to be dropped. *)
C13_InternalDomainsNeverEmpty ==
    (cal_pc = "returned" /\ settings.internal_domains # {}) =>
        /\ \A i \in 1..Len(cal_result) :
             LET before == BeforeInternalStep(event_cal[i], RawOf(cal_result[i]))
                 after  == EmailsOf(cal_result[i].attendees)
             IN  /\ after = IF OutsideList(before) # {} THEN OutsideList(before) ELSE before
                 /\ before # {} => after # {}
        /\ failed_cal = 0 =>
             \A c \in ConfiguredCalendars : \A k \in ItemsOf(c) :
                 ~Returned(c, k) =>
                     \/ settings.filter_exclude_recurring /\ EventPool[k].recurring
                     \/ /\ settings.filter_require_non_owner_attendee
                        /\ \A e \in RawEmails(EventPool[k]) : IsIdentity(e, c)
                     \/ /\ settings.filter_external_only
                        /\ BeforeInternalStep(c, EventPool[k]) = {}

(* one returned event lost its listed attendee, another of listed attendees *)
(* only kept them                                                           *)
C13_Witness ==
    /\ cal_pc = "returned"
    /\ settings.internal_domains # {}
    /\ \E i \in 1..Len(cal_result) :
         LET before == BeforeInternalStep(event_cal[i], RawOf(cal_result[i]))
         IN  OutsideList(before) # {} /\ OutsideList(before) # before
    /\ \E i \in 1..Len(cal_result) :
         LET before == BeforeInternalStep(event_cal[i], RawOf(cal_result[i]))
         IN  before # {} /\ OutsideList(before) = {}

(* the attendee filters alone let the item through *)
PassesAttendeeFilters(calendar_id, event) ==
    /\ settings.filter_require_non_owner_attendee
          => \E e \in RawEmails(event) : ~IsIdentity(e, calendar_id)
    /\ settings.filter_external_only => BeforeInternalStep(calendar_id, event) # {}

(* C14 as stated: an event with a recurrence marker is absent from the output *)
(* when the exclude-recurring toggle is enabled and present when it is       *)
(* disabled.                                                                 *)
C14_RecurringPresentIffToggleOff ==
    (cal_pc = "returned" /\ failed_cal = 0) =>
        \A c \in ConfiguredCalendars : \A k \in ItemsOf(c) :
            EventPool[k].recurring => (Returned(c, k) <=> ~settings.filter_exclude_recurring)

(* C14, amended: absent when the toggle is enabled; when it is disabled the *)
(* event is present exactly when the attendee filters let it through.       *)
C14_RecurringDecidedByToggleAndFilters ==
    (cal_pc = "returned" /\ failed_cal = 0) =>
        \A c \in ConfiguredCalendars : \A k \in ItemsOf(c) :
            EventPool[k].recurring =>
                (Returned(c, k) <=> (/\ ~settings.filter_exclude_recurring
                                     /\ PassesAttendeeFilters(c, EventPool[k])))

(* with the toggle off, the same recurring item is returned for one calendar *)
(* and dropped by the external-only filter for the other                     *)
C14_Witness ==
    /\ cal_pc = "returned"
    /\ failed_cal = 0
    /\ ~settings.filter_exclude_recurring
    /\ 4 \in ItemsOf(CalAnn) /\ Returned(CalAnn, 4)
    /\ 4 \in ItemsOf(CalBen) /\ ~Returned(CalBen, 4)

(* C15 as stated: the returned list is sorted by start time ascending, for *)
(* any number of configured calendar identities.                           *)
C15_ResultSortedByStart ==
    cal_pc = "returned" =>
        \A i, j \in 1..Len(cal_result) :
            i < j => cal_result[i].start_time.t <= cal_result[j].start_time.t

(* C15, amended: the events read from one calendar are in start-time order, *)
(* and the calendars' events follow each other in the order the calendars  *)
(* are configured, so the whole list is sorted when one calendar is        *)
(* configured.                                                             *)
C15_SortedWithinEachCalendar ==
    cal_pc = "returned" =>
        /\ \A i, j \in 1..Len(cal_result) :
             (i < j /\ event_cal[i] = event_cal[j])
                 => cal_result[i].start_time.t <= cal_result[j].start_time.t
        /\ \A i, j \in 1..Len(cal_result) :
             i < j => \E m, n \in 1..Len(calendar_ids) :
                         m <= n /\ calendar_ids[m] = event_cal[i] /\ calendar_ids[n] = event_cal[j]
        /\ Len(calendar_ids) = 1 =>
             \A i, j \in 1..Len(cal_result) :
                 i < j => cal_result[i].start_time.t <= cal_result[j].start_time.t

(* two calendars, two events from the first, of which the later starts *)
(* after the event of the second calendar                              *)
C15_Witness ==
    /\ cal_pc = "returned"
    /\ Len(calendar_ids) = 2
    /\ Len(cal_result) = 3
    /\ event_cal = <<CalAnn, CalAnn, CalBen>>
    /\ cal_result[2].start_time.t > cal_result[3].start_time.t

---------------------------------------------------------------------------
(* Properties of the queried range (SpecWindow) *)

(* C16 as stated: with a positive window and the target date today, the  *)
(* queried range starts at now and ends at now + window; with window 0   *)
(* or another target date it is the local day, midnight to next midnight *)
C16_RangeIsNowPlusWindow ==
    query_range # None =>
        LET q == Val(query_range)
            w == settings.time_window_hours
        IN  IF w > 0 /\ q.target_day = q.now_local \div 24
            THEN q.time_min = q.now_local + 5 /\ q.time_max = q.now_local + w + 5
            ELSE q.time_min = 24 * q.target_day + 5
                 /\ q.time_max = 24 * (q.target_day + 1) + 5

(* C16, amended: the windowed range starts at now and ends at now + window *)
(* or at the next local midnight, whichever comes first                    *)
C16_RangeIsWindowWithinDay ==
    query_range # None =>
        LET q == Val(query_range)
            w == settings.time_window_hours
        IN  IF w > 0 /\ q.target_day = q.now_local \div 24
            THEN /\ q.time_min = q.now_local + 5
                 /\ q.time_max = (IF q.now_local + w <= 24 * (q.target_day + 1)
                                  THEN q.now_local + w ELSE 24 * (q.target_day + 1)) + 5
            ELSE q.time_min = 24 * q.target_day + 5
                 /\ q.time_max = 24 * (q.target_day + 1) + 5

(* 23:00 on the target day with a window of two hours *)
C16_Witness ==
    /\ query_range # None
    /\ settings.time_window_hours = 2
    /\ Val(query_range).target_day = 1
    /\ Val(query_range).now_local = 47
    /\ Val(query_range).time_max < 47 + 2 + 5

---------------------------------------------------------------------------
(* Properties of the history annotation (SpecHistory) *)

(* the places in the fetched items of the past events in which the email *)
(* appears as an attendee other than the calendar's owner                *)
PastEventsWith(email) ==
    { n \in 1..Len(Val(history).items) :
        \E a \in { PastPool[Val(history).items[n]].attendees[j] :
                     j \in 1..Len(PastPool[Val(history).items[n]].attendees) } :
            a.email # None /\ ~a.self /\ LowerEmail(Val(a.email)) = LowerEmail(email) }

LatestStart(places) ==
    CHOOSE t \in { PastPool[Val(history).items[n]].start.t : n \in places } :
        \A n \in places : PastPool[Val(history).items[n]].start.t <= t

(* C17: after _enrich_with_history, every attendee of today's events whose *)
(* email appears, case-insensitively, in a past event of the lookback      *)
(* window has meetings_past_n_days equal to the number of those events and *)
(* last_meeting_date equal to the latest of their start times; the others  *)
(* keep both fields unset.                                                 *)
C17_HistoryCountsAndLatest ==
    (history # None /\ Val(history).outcome # "other") =>
        \A i \in 1..Len(enriched_events) : \A j \in 1..Len(enriched_events[i].attendees) :
            LET att  == enriched_events[i].attendees[j]
                past == PastEventsWith(att.email)
            IN  IF past = {}
                THEN att.meetings_past_n_days = None /\ att.last_meeting_date = None
                ELSE /\ att.meetings_past_n_days = Some(Cardinality(past))
                     /\ att.last_meeting_date # None
                     /\ Val(att.last_meeting_date).t = LatestStart(past)

(* C18: running _enrich_with_history a second time on the same events with *)
(* the same history leaves meetings_past_n_days and last_meeting_date of   *)
(* every attendee as the first run left them.                              *)
C18_HistoryIdempotent ==
    (history # None /\ Val(history).runs = 2) =>
        /\ Len(enriched_events) = Len(Val(history).first)
        /\ \A i \in 1..Len(enriched_events) :
             /\ Len(enriched_events[i].attendees) = Len(Val(history).first[i].attendees)
             /\ \A j \in 1..Len(enriched_events[i].attendees) :
                  LET now  == enriched_events[i].attendees[j]
                      once == Val(history).first[i].attendees[j]
                  IN  /\ now.meetings_past_n_days = once.meetings_past_n_days
                      /\ now.last_meeting_date = once.last_meeting_date

(* a second run over an attendee the first run counted twice *)
C18_Witness ==
    /\ history # None
    /\ Val(history).runs = 2
    /\ \E i \in 1..Len(enriched_events) : \E j \in 1..Len(enriched_events[i].attendees) :
         enriched_events[i].attendees[j].meetings_past_n_days = Some(2)

---------------------------------------------------------------------------
(* Properties of the fallback formatter (SpecFallback) *)

CalledAttendees == Val(fallback_call).events[1].attendees

MaterialsOf(attendees) ==
    UNION { IF attendees[i].materials = None THEN {}
            ELSE { Val(attendees[i].materials)[k] : k \in 1..Len(Val(attendees[i].materials)) } :
            i \in 1..Len(attendees) }

(* the texts of the attendees' last note and first recent context, tags removed *)
NoteTextsOf(attendees) ==
    UNION { (IF attendees[i].last_note_summary = None THEN {}
             ELSE { strip_html(Val(attendees[i].last_note_summary).tokens) })
            \cup (IF attendees[i].recent_emails = None \/ Val(attendees[i].recent_emails) = <<>>
                  THEN {}
                  ELSE { strip_html(Val(attendees[i].recent_emails)[1].tokens) }) :
            i \in 1..Len(attendees) } \ {<<>>}

WebsitesOf(attendees) ==
    { Val(attendees[i].website_url) :
        i \in { n \in 1..Len(attendees) : attendees[n].website_url # None } }

(* C19: the "About" snippet of a meeting line is the attendees' materials  *)
(* links if any exist, otherwise the last note or recent-context text of  *)
(* an attendee, otherwise a company website; no other field of the event  *)
(* is used, and a text over 120 characters is cut and marked.             *)
C19_AboutPriority ==
    (fallback_call # None /\ ~Val(fallback_call).raised) =>
        LET about == Val(fallback_call).lines[1].about
            mats  == MaterialsOf(CalledAttendees)
            notes == NoteTextsOf(CalledAttendees)
            sites == WebsitesOf(CalledAttendees)
        IN  /\ mats # {} =>
                 /\ about.kind = "materials"
                 /\ \A k \in 1..Len(about.text) : about.text[k] \in mats
            /\ (mats = {} /\ notes # {}) =>
                 /\ about.kind = "text"
                 /\ about.text \in notes
                 /\ about.cut <=> about.text = <<"intro", "call">>
            /\ (mats = {} /\ notes = {} /\ sites # {}) =>
                 about.kind = "site" /\ about.text[1] \in sites
            /\ (mats = {} /\ notes = {} /\ sites = {}) => about.kind = "none"

InternalLocals == {"internal.bot", "ops"}

FirstName(att) ==
    CASE att.email.local = "alice"  -> "Alice"
      [] att.email.local = "bob"    -> "Bob"
      [] att.email.local = "robert" -> "Bob"
      [] att.email.local = "carol"  -> "Carol"
      [] att.email.local = "frank"  -> "Frank"
      [] att.email.local = "gina"   -> "Gina"
      [] att.email.local = "hank"   -> "Hank"
      [] att.email.local = "ivy"    -> "Ivy"
      [] OTHER -> "Erin"

(* the places of the attendees whose name is listed: not an internal alias, *)
(* and no earlier listed attendee has the same first name                   *)
ListedPlaces(attendees) ==
    { i \in 1..Len(attendees) :
        /\ attendees[i].email.local \notin InternalLocals
        /\ \A j \in 1..(i - 1) :
             attendees[j].email.local \in InternalLocals
                 \/ FirstName(attendees[j]) # FirstName(attendees[i]) }

(* C20: the attendee list of a meeting line holds the capitalised first   *)
(* names of the attendees, internal aliases and duplicate names removed,  *)
(* at most 5 of them in attendee order, followed by "+k" exactly when     *)
(* k > 0 names were left out; alice@ext.com and internal.bot@acme.com     *)
(* show "Alice" alone.                                                    *)
C20_AttendeeNamesListed ==
    fallback_call # None =>
        LET line   == Val(fallback_call).lines[1].attendees
            listed == ListedPlaces(CalledAttendees)
            total  == Cardinality(listed)
        IN  /\ ~Val(fallback_call).raised
            /\ Len(line.shown) = (IF total < 5 THEN total ELSE 5)
            /\ \A i \in listed :
                 LET rank == Cardinality({ k \in listed : k <= i })
                 IN  rank <= 5 => line.shown[rank] = FirstName(CalledAttendees[i])
            /\ line.plus = (IF total > 5 THEN Some(total - 5) ELSE None)
            /\ [i \in 1..Len(CalledAttendees) |-> CalledAttendees[i].email.local]
                   = <<"alice", "internal.bot">>
                 => line.shown = <<"Alice">> /\ line.plus = None

EndsAfterStart(events) ==
    \A i \in 1..Len(events) :
        /\ events[i].end_time.t >= events[i].start_time.t
        /\ events[i].duration_minutes # None
        /\ Val(events[i].duration_minutes) >= 0

(* C25: every MeetingEvent produced by get_daily_events or by            *)
(* get_events_for_date_range has end_time >= start_time and a            *)
(* non-negative duration_minutes.                                        *)
C25_EndNotBeforeStart ==
    /\ EndsAfterStart(meeting_events)
    /\ EndsAfterStart(cal_result)
    /\ \A items \in PastLists : EndsAfterStart(EventsForDateRange(items))

(* a call returned events, and the lookback window can hold some as well *)
C25_Witness ==
    /\ cal_pc = "returned"
    /\ Len(cal_result) >= 2
    /\ \E items \in PastLists : Len(EventsForDateRange(items)) >= 2

---------------------------------------------------------------------------
(* Properties of the Celery tasks (SpecTasks) *)

TaskPositions ==
    {"idle", "construct", "settings", "generate", "save", "query", "send", "mark", "cleanup",
     "done"}

(* C22: a task run never ends in an exception: whatever raises while the *)
(* services are constructed, the brief is generated, persisted or sent   *)
(* is caught, the task returns False (0 for the cleanup), and the        *)
(* session is closed on every path.                                      *)
C22_TasksCatchAndClose ==
    /\ task.pc \in TaskPositions
    /\ task.pc \notin {"idle", "done"} => task.session = "open"
    /\ task.pc = "done" =>
          /\ task.session = "closed"
          /\ task.result # None
          /\ task.raised =>
                task.result = Some(IF task.name = "cleanup_old_briefs" THEN <<"int", 0>>
                                   ELSE <<"bool", FALSE>>)

(* the morning task sent the email and the commit after it raised *)
C22_Witness ==
    /\ task.pc = "done"
    /\ task.raised
    /\ task.name = "generate_and_send_morning_brief"
    /\ task.steps = <<"construct", "settings", "generate", "save", "send", "mark">>
    /\ task.result = Some(<<"bool", FALSE>>)
    /\ task.session = "closed"

RowsWithId(rows, id) == {k \in 1..Len(rows) : rows[k].id = id}

(* C23: a Brief row is created unsent; afterwards only its sent status   *)
(* changes: is_sent becomes True, together with sent_at, only in the     *)
(* step after the send for that brief returned success; date, content    *)
(* and events_summary stay as saved.                                     *)
C23_BriefRowsOnlyFlipToSent ==
    [][ \A k \in 1..Len(db_briefs') :
          LET new == db_briefs'[k]
              before == RowsWithId(db_briefs, new.id)
          IN  /\ new.is_sent = (new.sent_at # None)
              /\ before = {} => ~new.is_sent
              /\ \A j \in before :
                    LET old == db_briefs[j] IN
                    /\ new.date = old.date
                    /\ new.content = old.content
                    /\ new.events_summary = old.events_summary
                    /\ new.created_at = old.created_at
                    /\ old.is_sent => new.is_sent
                    /\ new # old =>
                          /\ task.pc = "mark"
                          /\ task.success = Some(TRUE)
                          /\ task.brief_id = new.id
                          /\ outbox # None
                          /\ Val(outbox).content = new.content
                          /\ new.is_sent
      ]_vars

(* one brief was sent and marked; the send of another one failed and it  *)
(* stays unsent                                                          *)
C23_Witness ==
    /\ task.pc = "done"
    /\ task.success = Some(FALSE)
    /\ RowsWithId(db_briefs, task.brief_id) # {}
    /\ \A k \in RowsWithId(db_briefs, task.brief_id) : ~db_briefs[k].is_sent
    /\ \E k \in 1..Len(db_briefs) : db_briefs[k].is_sent

Morning(t) == t.name = "generate_and_send_morning_brief"

(* C30: with no settings row or an inactive one the morning task returns *)
(* False and generates, persists and sends nothing; it sends only to the *)
(* email_address of an active settings row and only a brief that has     *)
(* been persisted.                                                       *)
C30_MorningTaskNeedsActiveSettings ==
    [][ /\ (Morning(task') /\ (db_settings = <<>> \/ ~db_settings[1].is_active)) =>
              /\ \A k \in 1..Len(task'.steps) : task'.steps[k] \in {"construct", "settings"}
              /\ task'.brief_response = None
              /\ db_briefs' = db_briefs
              /\ outbox' = outbox
              /\ task'.success = None
              /\ task'.pc = "done" => task'.result = Some(<<"bool", FALSE>>)
        /\ (Morning(task) /\ task.pc = "send" /\ task'.success = Some(TRUE)) =>
              LET mail == Val(outbox') IN
              /\ db_settings # <<>>
              /\ db_settings[1].is_active
              /\ mail.to = db_settings[1].email_address
              /\ \E k \in 1..Len(db_briefs) :
                    /\ db_briefs[k].id = task.brief_id
                    /\ db_briefs[k].content = mail.content
      ]_vars

(* the morning task stopped at the check of an inactive settings row *)
C30_Witness ==
    /\ Morning(task)
    /\ task.pc = "done"
    /\ ~task.raised
    /\ task.steps = <<"construct", "settings">>
    /\ db_settings # <<>>
    /\ ~db_settings[1].is_active
    /\ task.result = Some(<<"bool", FALSE>>)

---------------------------------------------------------------------------
(* Properties of the settings table (SpecSettings) *)

FieldsOf(row) ==
    [delivery_time |-> row.delivery_time, timezone |-> row.timezone,
     email_address |-> row.email_address, is_active |-> row.is_active]

(* C24: from an empty table, update_user_settings leaves exactly one     *)
(* row, holding the data of the most recent call; it creates a row only  *)
(* when there is none and otherwise updates the existing row in place;   *)
(* get_user_settings returns that row.                                   *)
C24_SettingsSingleton ==
    [][ LET call == settings_call' IN
        /\ Len(db_settings') <= 1
        /\ (call.op = "update" /\ ~call.raised) =>
              /\ Len(db_settings') = 1
              /\ FieldsOf(db_settings'[1]) = Val(call.data)
              /\ call.returned = Some(db_settings'[1])
              /\ db_settings # <<>> => db_settings'[1].id = db_settings[1].id
        /\ (call.op = "update" /\ call.raised) => db_settings' = db_settings
        /\ call.op = "get" =>
              /\ db_settings' = db_settings
              /\ call.returned = (IF db_settings = <<>> THEN None ELSE Some(db_settings[1]))
      ]_vars

(* the row of the table was updated in place and then read *)
C24_Witness ==
    /\ settings_call.op = "get"
    /\ settings_call.returned # None
    /\ Val(settings_call.returned).id = 1
    /\ Val(settings_call.returned).email_address = OtherEmail
    /\ ~Val(settings_call.returned).is_active

---------------------------------------------------------------------------
(* Properties of async_retry (SpecRetry) *)

RECURSIVE Pow2(_)
Pow2(n) == IF n = 0 THEN 1 ELSE 2 * Pow2(n - 1)

Failed(outcome) == outcome \in {"transient", "permanent", "uncaught"}

(* should_retry is given and answers false for the exception *)
NotToBeRetried(c, outcome) == c.should_retry /\ outcome = "permanent"

C28_Attempts ==
    [][ LET c == retry_call
            d == retry_call'
            n == Len(d.outcomes)
        IN  /\ (d.outcomes # c.outcomes /\ c.pc = "calling") =>
                  /\ n = Len(c.outcomes) + 1
                  /\ n <= c.tries
                  /\ \A k \in 1..(n - 1) : Failed(d.outcomes[k])
                  /\ d.outcomes[n] = "ok" => d.pc = "returned"
                  /\ NotToBeRetried(c, d.outcomes[n]) => d.pc = "raised"
                  /\ (Failed(d.outcomes[n]) /\ n = c.tries) => d.pc = "raised"
                  /\ d.pc = "sleeping" => d.outcomes[n] \in {"transient", "permanent"}
            /\ (d.pc \in {"returned", "raised"} /\ c.pc \notin {"returned", "raised"}) =>
                  /\ c.pc = "calling"
                  /\ n >= 1
                  /\ (d.pc = "returned") = (d.outcomes[n] = "ok")
            /\ (c.pc = "sleeping" /\ d.pc = "calling") =>
                  LET k == Len(d.waits)
                      w == d.waits[k]
                  IN  /\ k = Len(c.waits) + 1
                      /\ k = Len(c.outcomes)
                      /\ w.delay = Min2(BaseDelay * Pow2(k - 1), c.max_delay)
                      /\ w.jitter >= 0
                      /\ 2 * w.jitter <= w.delay
      ]_vars

C28_Terminates ==
    (retry_call.pc = "calling") ~> (retry_call.pc \in {"returned", "raised"})

(* C28: a call through async_retry terminates; the function is attempted *)
(* at least once and at most `tries` times; the first success is         *)
(* returned at once; an exception should_retry rejects, and the last     *)
(* exception after `tries` failures, are re-raised at once; the wait     *)
(* before the k-th retry is min(base_delay * 2^(k-1), max_delay) plus a  *)
(* jitter of at most half of it.                                         *)
C28_AsyncRetryBoundedAndBackingOff == C28_Attempts /\ C28_Terminates

(* a call that failed three times, waited 0.5 s, 1 s and the capped 1.5 s *)
(* (each plus jitter) and succeeded at the fourth attempt                 *)
C28_Witness ==
    /\ retry_call.pc = "returned"
    /\ retry_call.max_delay = 6
    /\ Len(retry_call.outcomes) = 4
    /\ retry_call.waits[3].delay = 6

---------------------------------------------------------------------------
(* Properties of the cache wrapper (SpecCache) *)

(* None, numbers, strings, lists of such and dicts of such with str keys *)
RECURSIVE JsonRepresentable(_)
JsonRepresentable(v) ==
    CASE v[1] \in {"none", "int", "str"} -> TRUE
      [] v[1] = "list" -> \A i \in 1..Len(v[2]) : JsonRepresentable(v[2][i])
      [] v[1] = "dict" -> \A i \in 1..Len(v[2]) :
                            v[2][i][1][1] = "str" /\ JsonRepresentable(v[2][i][2])
      [] OTHER -> FALSE

IsSet(call) == call.op \in {"set_json", "set_json_sync"}
IsGet(call) == call.op \in {"get_json", "get_json_sync"}

(* a get of the key that the step before it set *)
GetRightAfterSet ==
    /\ IsSet(cache_call)
    /\ IsGet(cache_call')
    /\ cache_call'.key = cache_call.key

(* a get of a key that holds nothing: never set, or expired *)
GetOfAbsentKey == IsGet(cache_call') /\ redis[cache_call'.key] = None

(* C21 as stated: for every value v, a get right after set(key, v, ttl)  *)
(* returns a value equal to v; a get of an absent key returns None.      *)
C21_RoundTripEveryValue ==
    [][ /\ GetRightAfterSet => cache_call'.result = cache_call.value
        /\ GetOfAbsentKey => cache_call'.result = PyNone
      ]_vars

(* C21: for every JSON-representable value v, a get right after          *)
(* set(key, v, ttl) returns a value equal to v, in the async and the     *)
(* sync variants alike; a get of an absent key returns None.             *)
C21_RoundTripJsonValues ==
    [][ /\ (GetRightAfterSet /\ JsonRepresentable(cache_call.value))
              => cache_call'.result = cache_call.value
        /\ GetOfAbsentKey => cache_call'.result = PyNone
      ]_vars

(* a list of dicts came back from the cache while the other key is absent *)
C21_Witness ==
    /\ cache_call.op = "get_json_sync"
    /\ cache_call.result = PyList(<<PyDict(<<<<PyStr("id"), PyStr("a")>>>>)>>)
    /\ redis[cache_call.key] # None
    /\ \E k \in RedisKeys : redis[k] = None

---------------------------------------------------------------------------
(* Properties of get_daily_events, continued (SpecCalendar) *)

(* a step that executes the event-list request of the calendar at cal_idx *)
ListRequestStep == Len(list_log'.outcomes) = Len(list_log.outcomes) + 1

(* C29: per calendar identity and call, the event-list request is        *)
(* executed at most 3 times, again only after an HttpError classified as *)
(* transient, never when the cache read gave a non-empty item list, and  *)
(* a successful request stores the items (TTL 600 s) and ends the        *)
(* requests for that calendar.                                           *)
C29_ListRequestAtMostThrice ==
    [][ /\ Len(list_log'.outcomes) <= 3
        /\ list_log'.cached = "hit" => list_log'.outcomes = <<>>
        /\ ListRequestStep =>
              LET key  == GcalKey(calendar_ids[cal_idx])
                  done == list_log.outcomes
                  last == list_log'.outcomes[Len(list_log'.outcomes)]
              IN  /\ list_log.cached \in {"miss", "error"}
                  /\ list_log.cached = "miss" => CacheGet(key) \in {None, Some(<<>>)}
                  /\ \A k \in 1..Len(done) : done[k] = "transient"
                  /\ last = "ok" =>
                        /\ cache' \in {cache,
                                       [cache EXCEPT ![key] =
                                          Some([value |-> source[calendar_ids[cal_idx]],
                                                ttl |-> 600])]}
                        /\ cal_pc' # "api"
                        /\ cal_idx' = cal_idx + 1
      ]_vars

(* a calendar answered at the third request and its items are cached *)
C29_Witness ==
    /\ list_log.outcomes = <<"transient", "transient", "ok">>
    /\ cal_idx > 1
    /\ cache[GcalKey(calendar_ids[cal_idx - 1])]
          = Some([value |-> source[calendar_ids[cal_idx - 1]], ttl |-> 600])
    /\ source[calendar_ids[cal_idx - 1]] # <<>>

---------------------------------------------------------------------------
(* Properties of enrichment inside a generation (SpecBrief) *)

LinkedinProfileUrls(details) ==
    { details.social_profiles[k].url :
        k \in { n \in 1..Len(details.social_profiles) :
                  /\ details.social_profiles[n].type = "linkedin"
                  /\ details.social_profiles[n].url # None } }

LinkedinFieldValues(list_entries) ==
    UNION { { list_entries[k].fields[m].value :
                m \in { n \in 1..Len(list_entries[k].fields) :
                          list_entries[k].fields[n].linkedin } } :
            k \in 1..Len(list_entries) }

(* C26: the LinkedIn URL is resolved tier by tier: the list entries are   *)
(* looked up only when the person details held no LinkedIn profile, the   *)
(* legacy record only when the list entries held no LinkedIn value too,   *)
(* and the URL kept is the one of the first tier that produced a value.   *)
C26_LinkedinTiersInOrder ==
    [][ /\ (enr.pc = "details" /\ enr'.pc \in {"fields", "entries"})
              => LinkedinProfileUrls(Val(lk.result)) = {}
        /\ (enr.pc = "details" /\ enr'.pc = "notes")
              => enr'.linkedin_url \in LinkedinProfileUrls(Val(lk.result))
        /\ (enr.pc # "entries" /\ enr'.pc = "entries") => enr.pc \in {"details", "fields"}
        /\ (enr.pc = "fields") => enr.linkedin_url = None
        /\ (enr.pc = "entries" /\ enr'.pc = "v1")
              => enr.linkedin_url = None /\ LinkedinFieldValues(lk.result) = {}
        /\ (enr.pc = "entries" /\ enr'.pc = "notes")
              => /\ enr'.linkedin_url # None
                 /\ Val(enr'.linkedin_url) \in LinkedinFieldValues(lk.result)
        /\ (enr.pc # "v1" /\ enr'.pc = "v1") => enr.pc = "entries"
        /\ (enr.pc = "v1" /\ enr'.pc = "notes")
              => enr'.linkedin_url \in {None, Some("li:dave")}
        /\ (enr.pc = "notes" /\ enr'.pc = "returned" /\ enr'.written # {})
              => Val(enr'.attendee).linkedin_url = enr.linkedin_url
      ]_vars

(* one attendee got the URL of the legacy record, so all three tiers ran *)
C26_Witness ==
    /\ enr.pc = "returned"
    /\ enr.written # {}
    /\ Val(enr.attendee).linkedin_url = Some("li:dave")

(* C27: _enrich_events returns one event per input event, in order, with *)
(* the input's event_id, title, start_time, end_time, description,       *)
(* location, meeting_url, calendar_url and duration_minutes and the same *)
(* attendee emails in order.                                             *)
C27_EnrichEventsKeepsEventFields ==
    gen_pc \in {"history", "summarize", "done"} /\ cal_result # <<>> =>
        /\ Len(enriched_events) = Len(cal_result)
        /\ \A i \in 1..Len(enriched_events) :
             LET out == enriched_events[i]
                 in  == cal_result[i]
             IN  /\ out.event_id = in.event_id
                 /\ out.title = in.title
                 /\ out.start_time = in.start_time
                 /\ out.end_time = in.end_time
                 /\ out.description = in.description
                 /\ out.location = in.location
                 /\ [j \in 1..Len(out.attendees) |-> out.attendees[j].email]
                        = [j \in 1..Len(in.attendees) |-> in.attendees[j].email]
                 /\ out.meeting_url = in.meeting_url
                 /\ out.calendar_url = in.calendar_url
                 /\ out.duration_minutes = in.duration_minutes

---------------------------------------------------------------------------
(* Properties of the CRM lookups (SpecCrm) *)

ReadLookups == {"person", "details", "entries", "fields"}

(* C8: a CRM request that failed with a transient error is issued again until *)
(* 3 attempts are made, and one that failed with a non-transient error is not *)
(* repeated and its error reaches the caller of the lookup.                   *)
C8_TransientRetriedPermanentRaised ==
    (lk.pc \in {"returned", "raised"} /\ lk.kind \in ReadLookups) =>
        /\ (lk.last_net = "transient" => lk.net = CrmTries)
        /\ (lk.last_net = "permanent" => (lk.net = 1 /\ lk.pc = "raised"))

(* C9: each of the four read lookups answers from the cache without a request *)
(* when its key is stored, stores the data a successful request returned with *)
(* the 24-hour TTL, and so is answered by the CRM at most once per key while  *)
(* the entry has not expired.                                                 *)
C9_ReadLookupsCached ==
    /\ lk.hit => lk.net = 0
    /\ (lk.pc = "returned" /\ lk.kind \in ReadLookups /\ lk.last_net = "ok"
            /\ lk.result # <<>>) => lk.stored
    /\ \A k \in DOMAIN cache : cache[k] # None /\ k[1] = "aff" => Val(cache[k]).ttl = CrmTtl
    /\ \A c \in DOMAIN net_by_key : c[1] \in ReadLookups => net_by_key[c] <= 1

---------------------------------------------------------------------------
(* Properties of brief generation (SpecBrief) *)

(* the attendees of the returned brief, event by event *)
SummaryAttendees == [i \in 1..Len(Val(brief).events_summary) |->
                        Val(brief).events_summary[i].attendees]

(* C2: with no news API key, when generate_daily_brief has returned, every *)
(* attendee of events_summary has news_articles = [] (set, not None) and   *)
(* the news source was never called.                                       *)
C2_NewsArticlesEmptyWithoutKey ==
    (gen_pc = "done" /\ ~settings.news_api_key) =>
        /\ "news" \notin invoked
        /\ \A i \in 1..Len(SummaryAttendees) : \A j \in 1..Len(SummaryAttendees[i]) :
               SummaryAttendees[i][j].news_articles = Some(<<>>)

(* C3: generate_meeting_brief on a non-empty list never raises, so no error *)
(* of it leaves generate_daily_brief: the brief holds the language-model    *)
(* text when the request succeeded and the fallback text when it failed.    *)
C3_SummarizationNeverRaises ==
    /\ ~(gen_pc = "raised" /\ Val(gen_error).origin = "generate_meeting_brief")
    /\ (gen_pc = "done" /\ llm = "ok") => Val(brief).content = [kind |-> "llm", body |-> LlmText]
    /\ (gen_pc = "done" /\ llm = "error") => Val(brief).content.kind = "fallback"

(* C4: when the event-list request failed until its retry budget was used *)
(* up, generate_daily_brief ends by raising, never by returning a brief.   *)
C4_UnreachableCalendarPropagates ==
    (gen_pc \notin {"idle", "calendar"} /\ failed_cal # 0 /\ attempt = MaxListAttempts)
        => (gen_pc = "raised" /\ brief = None)

(* C5: when get_daily_events returned no event, the brief returned has the  *)
(* content "No meetings scheduled for <Month DD, YYYY>." for the target     *)
(* date, an empty events_summary, and no CRM, news, history or              *)
(* language-model call was made.                                            *)
C5_NoMeetingsBrief ==
    (gen_pc = "done" /\ cal_result = <<>>) =>
        /\ brief # None
        /\ Val(brief).content.body =
               (IF target_date = [year |-> 2025, month |-> 3, day |-> 7]
                THEN <<"No meetings scheduled for ", "March", " ", 0, 7, ", ", 2025, ".">>
                ELSE <<"No meetings scheduled for ", "November", " ", 2, 3, ", ", 2025, ".">>)
        /\ Val(brief).events_summary = <<>>
        /\ invoked = {}

C5_Witness ==
    /\ gen_pc = "done"
    /\ cal_result = <<>>
    /\ source[Primary] = <<>>
    /\ target_date.day = 7

CrmPart(att) == [f \in CrmFieldNames |-> att[f]]

(* what the CRM of the model holds for each person, as the eight fields *)
ExpectedCrm(email) ==
    LET unset == CrmPart(AttendeeInfo(email, <<>>)) IN
    CASE LowerEmail(email) = Carol ->
           [unset EXCEPT !.company = Some("Other Inc"), !.company_domain = Some("other.com"),
                         !.website_url = Some("https://other.com"),
                         !.linkedin_url = Some("li:carol"),
                         !.recent_emails =
                             Some(<<[tokens |-> <<"see", "https://deck">>, size |-> "short"],
                                    [tokens |-> <<"intro", "call">>, size |-> "cut200"]>>),
                         !.last_note_summary =
                             Some([tokens |-> <<"see", "https://deck">>, size |-> "short"]),
                         !.last_note_date = Some("d2"),
                         !.materials = Some(<<"https://deck">>)]
      [] LowerEmail(email) = Bob ->
           [unset EXCEPT !.linkedin_url = Some("li:bob"), !.recent_emails = Some(<<>>),
                         !.materials = Some(<<>>)]
      [] LowerEmail(email) = Dave ->
           [unset EXCEPT !.company = Some("Partner LLC"),
                         !.company_domain = Some("partner.com"),
                         !.website_url = Some("www:partner"),
                         !.linkedin_url = Some("li:dave"), !.recent_emails = Some(<<>>),
                         !.materials = Some(<<>>)]
      [] OTHER -> unset

====
